---- MODULE Spec2Model ----
(***************************************************************************)
(* Model of the marketplace scraper: the JSON stores written by            *)
(* save_to_json (ozon_selenium_scraper.py, wb_selenium_scraper.py), the    *)
(* save block of main (main.py) with the sinks of DataStorage              *)
(* (data_storage.py), the price normaliser, the product                    *)
(* assemblers and field extractors of the two scrapers, and the scraping   *)
(* part of a run (main, search_target_products, collect_multiple_products).*)
(***************************************************************************)
EXTENDS Integers, Sequences, FiniteSets, TLC

VARIABLES
    latest,         \* data/products_latest.json: [st, recs]
    snapshots,      \* data/products_<timestamp>.json, one file per timestamp
    runs,           \* number of main() runs started so far
    mpc,            \* position of main()
    all_products,   \* main's result collection of the current run
    timestamp_file, \* main's timestamp_file ("none": not yet computed)
    prior_latest,   \* the latest file as it was when the run's latest save began
    write_outcome,  \* what opening and writing the latest file met in that save
    ret,            \* return values of the save_to_json calls of the current run
    sinks,          \* the calls of the storage sinks in the current run, in order
    storage_config, \* config['storage'] as DataStorage.save reads it
    storage_io,     \* whether the writes of the CSV file and of the spreadsheet go through
    price_parts,    \* the parts a price-bearing text is written from
    price_text,     \* the text handed to extract_price_from_text
    price_result,   \* what extract_price_from_text returned
    ppc,            \* position of the extract_price_from_text call
    wpc,            \* position of collect_product_data
    article,        \* its argument
    driver,         \* its local driver: "None" or "set"
    session,        \* the browser: "none", "open" or "quit" (driver.quit() called)
    exc,            \* "raised" while an exception travels to the handler
    page,           \* the page the driver has loaded
    blocked,        \* what is_blocked returned ("none": not called)
    invoked,        \* the field extractors called so far
    name,           \* the locals of collect_product_data
    price,
    price_source,   \* which search logged the price: selector, rub or scripts
    old_price,
    availability,
    rating,
    reviews_count,
    result,         \* what collect_product_data returns
    opc,            \* position of extract_product_info_immediately
    element,        \* the card it is called with
    product_info,   \* what it returns
    fn,             \* the extractor being called on its own ("none": no call)
    args,           \* what the page gives it
    value,          \* what it returns
    rpc,            \* position of the scraping part of a run
    entry,          \* the entry point: main or collect_multiple_products
    ozon_articles,  \* products.ozon of the configuration
    wb_articles,    \* products.wildberries, the list collect_multiple_products gets
    cards,          \* the cards of the Ozon search page
    all_products_data, \* the locals of search_target_products
    found_products,
    wb_products,    \* main's wb_products, the results of collect_multiple_products
    wb_index,       \* the place of the loop in wb_articles
    open_browsers,  \* browsers started and not yet quit
    quit_raised,    \* driver.quit() of the Ozon scrape raised
    trace,          \* the steps of the run so far, in order
    attempted       \* the identifiers collect_product_data was called with, in order

storeVars == <<latest, snapshots, runs, mpc, all_products, timestamp_file,
               prior_latest, write_outcome, ret, sinks, storage_config, storage_io>>

textVars == <<price_parts, price_text, price_result, ppc>>

wbVars == <<wpc, article, driver, session, exc, page, blocked, invoked, name,
            price, price_source, old_price, availability, rating, reviews_count,
            result>>

ozonVars == <<opc, element, product_info>>

scrapeVars == <<wbVars, ozonVars>>

callVars == <<fn, args, value>>

runVars == <<rpc, entry, ozon_articles, wb_articles, cards, all_products_data,
             found_products, wb_products, wb_index, open_browsers, quit_raised,
             trace, attempted>>

vars == <<storeVars, textVars, scrapeVars, callVars, runVars>>

\* What the steps of one part of the program leave alone.
notStoreVars == <<textVars, scrapeVars, callVars, runVars>>
notTextVars == <<storeVars, scrapeVars, callVars, runVars>>
notScrapeVars == <<storeVars, textVars, callVars, runVars>>
notCallVars == <<storeVars, textVars, scrapeVars, runVars>>
\* main's all_products is the one store variable the scraping part writes.
filesVars == <<latest, snapshots, runs, mpc, timestamp_file, prior_latest,
               write_outcome, ret, sinks, storage_config, storage_io>>
notRunVars == <<filesVars, textVars, scrapeVars, callVars>>

----------------------------------------------------------------------------
(* Bounds of the model *)

MaxData == 2
MaxRuns == 2
MaxGroups == 2
MaxElements == 2

----------------------------------------------------------------------------
(* Python values and their JSON text *)

\* A Python scalar: int, float, str or None.
PyInt(n) == [t |-> "int", n |-> n, s |-> ""]
PyFloat(n) == [t |-> "float", n |-> n, s |-> ""]
PyStr(s) == [t |-> "str", n |-> 0, s |-> s]
PyNone == [t |-> "none", n |-> 0, s |-> ""]

DecimalDigits == <<"0", "1", "2", "3", "4", "5", "6", "7", "8", "9">>
FloatReprs == <<"0.0", "1.0", "2.0", "3.0", "4.0", "5.0", "6.0", "7.0", "8.0", "9.0">>

\* str(x) of a Python scalar (ints of one digit, floats of one digit and .0).
str(x) ==
    CASE x.t = "int" -> DecimalDigits[x.n + 1]
      [] x.t = "float" -> FloatReprs[x.n + 1]
      [] x.t = "str" -> x.s
      [] OTHER -> "None"

\* json.dump of a scalar: the JSON token written to the file.
JsonDumpScalar(x) ==
    CASE x.t = "int" -> [k |-> "number", lit |-> DecimalDigits[x.n + 1]]
      [] x.t = "float" -> [k |-> "number", lit |-> FloatReprs[x.n + 1]]
      [] x.t = "str" -> [k |-> "string", lit |-> x.s]
      [] OTHER -> [k |-> "null", lit |-> "null"]

DigitOf(c) == CHOOSE d \in 0..9 : DecimalDigits[d + 1] = c

\* json.load of a token: a number literal with a fraction part is a float,
\* one without is an int.
JsonLoadScalar(j) ==
    CASE j.k = "null" -> PyNone
      [] j.k = "string" -> PyStr(j.lit)
      [] j.k = "number" /\ j.lit \in {DecimalDigits[d + 1] : d \in 0..9} ->
            PyInt(DigitOf(j.lit))
      [] OTHER ->
            PyFloat(CHOOSE d \in 0..9 : FloatReprs[d + 1] = j.lit)

Fields == {"article", "marketplace", "price", "old_price"}

JsonDumpRecord(r) == [f \in Fields |-> JsonDumpScalar(r[f])]
JsonLoadRecord(j) == [f \in Fields |-> JsonLoadScalar(j[f])]

\* json.dump(unique_data, f): the text of the list.
JsonDump(list) == [i \in 1..Len(list) |-> JsonDumpRecord(list[i])]
\* json.load(f) of a file that holds a list of records.
JsonLoad(text) == [i \in 1..Len(text) |-> JsonLoadRecord(text[i])]

----------------------------------------------------------------------------
(* The product records of the runs *)

Product(m, a, p, o) ==
    [marketplace |-> PyStr(m), article |-> a, price |-> p, old_price |-> o]

\* Wildberries articles come from the configuration (a YAML scalar: an int
\* when unquoted, a str when quoted); Ozon articles are regex groups (str).
\* Prices and articles are one digit long here.
Products ==
    { Product("Wildberries", PyStr("1"), PyFloat(1), PyNone),
      Product("Wildberries", PyStr("1"), PyFloat(2), PyFloat(3)),
      Product("Wildberries", PyInt(1), PyFloat(2), PyNone),
      Product("Ozon", PyStr("1"), PyInt(2), PyNone) }

RECURSIVE SeqsUpTo(_, _)
SeqsUpTo(S, n) ==
    IF n = 0 THEN {<<>>}
    ELSE LET shorter == SeqsUpTo(S, n - 1)
         IN shorter \cup {Append(q, x) : q \in {w \in shorter : Len(w) = n - 1}, x \in S}

DataLists == SeqsUpTo(Products, MaxData)

\* main extends all_products with the Ozon records first (main.py line 79:
\* the list remove_duplicates returned, one record per article), then with the
\* Wildberries ones, one per configured identifier (line 102).
RunLists ==
    {d \in DataLists :
        \A i, j \in 1..Len(d) :
            d[j].marketplace = PyStr("Ozon") /\ i # j
                => (j < i /\ d[i].marketplace = PyStr("Wildberries"))}

\* The values strftime('%Y%m%d_%H%M%S') gives the runs: local time to the
\* second. Two saves within one second get the same value, and so do two
\* saves an hour apart when the local clock is set back in between.
Timestamps == {"20240101_120000", "20240101_120001"}

----------------------------------------------------------------------------
(* Files *)

\* A file is absent, holds the JSON text of a list of records ("list"), or is
\* damaged: "invalid_json" (json.load raises JSONDecodeError; an empty or
\* truncated file is one), "not_list" (valid JSON, not a list: {} or null),
\* "bad_records" (a list whose items have no article key), "undecodable"
\* (bytes that are not UTF-8), "no_permission" (open raises PermissionError).
NoFile == [st |-> "absent", text |-> <<>>]
ListFile(text) == [st |-> "list", text |-> text]
Damaged(kind) == [st |-> kind, text |-> <<>>]
DamageKinds == {"invalid_json", "not_list", "bad_records", "undecodable", "no_permission"}

\* The read left out: every save starts from an empty existing_data.
ReadNothing(f, is_latest) == [raised |-> FALSE, kind |-> "list", items |-> <<>>]

\* Lines 446-453: the read of the prior contents. "raised": an exception other
\* than JSONDecodeError left the inner try; else the value of existing_data.
ReadExisting(f, is_latest) ==
    IF f.st = "absent" \/ ~is_latest
      THEN [raised |-> FALSE, kind |-> "list", items |-> <<>>]
    ELSE CASE f.st \in {"undecodable", "no_permission"} ->
                [raised |-> TRUE, kind |-> "list", items |-> <<>>]
           [] f.st = "invalid_json" ->
                [raised |-> FALSE, kind |-> "list", items |-> <<>>]
           [] f.st = "list" ->
                [raised |-> FALSE, kind |-> "list", items |-> JsonLoad(f.text)]
           [] OTHER ->
                [raised |-> FALSE, kind |-> f.st, items |-> <<>>]

\* repr(x): unlike str, it tells the int 1 from the str '1'.
repr(x) == IF x.t = "str" THEN "'" \o x.s \o "'" ELSE str(x)

\* Key without the str() conversion of the article.
KeyWithoutStr(item) == <<repr(item.article), item.marketplace>>

\* Key by article alone, as remove_duplicates keys the Ozon list.
KeyByArticle(item) == <<str(item.article), PyStr("")>>

\* Line 466: the key of an item.
Key(item) == <<str(item.article), item.marketplace>>

\* The loop with last-write-wins: an item is dropped when a later one has its key.
RECURSIVE UniqueKeepLast(_, _, _)
UniqueKeepLast(all_data, unique_data, seen) ==
    IF all_data = <<>> THEN unique_data
    ELSE LET item == Head(all_data)
             rest == Tail(all_data)
         IN IF \E i \in 1..Len(rest) : Key(rest[i]) = Key(item)
              THEN UniqueKeepLast(rest, unique_data, seen)
              ELSE UniqueKeepLast(rest, Append(unique_data, item), seen)

\* The loop without the test of seen: every item is kept.
UniqueKeepAll(all_data, unique_data, seen) == unique_data \o all_data

\* Lines 462-469: the loop over all_data, keeping the first item of each key.
RECURSIVE Unique(_, _, _)
Unique(all_data, unique_data, seen) ==
    IF all_data = <<>> THEN unique_data
    ELSE LET item == Head(all_data)
             key == Key(item)
         IN IF key \notin seen
              THEN Unique(Tail(all_data), Append(unique_data, item), seen \cup {key})
              ELSE Unique(Tail(all_data), unique_data, seen)

\* The outcomes of opening and writing the file (lines 472-473): "ok",
\* "open_error" (open raises, the file is untouched), "dump_error" (the file
\* was truncated by open and json.dump raised before the text was complete).
WriteOutcomes == {"ok", "open_error", "dump_error"}

\* save_to_json(data, filename): the file after the call and the value returned.
save_to_json(data, f, is_latest, io) ==
    LET rd == ReadExisting(f, is_latest)
        failed == [file |-> f, ret |-> FALSE]
    IN IF rd.raised THEN failed
       ELSE IF is_latest /\ rd.kind = "not_list" THEN failed      \* list + dict
       ELSE IF is_latest /\ rd.kind = "bad_records" THEN failed   \* item['article']
       ELSE LET all_data == IF is_latest THEN rd.items \o data ELSE data
                unique_data == Unique(all_data, <<>>, {})
            IN IF io = "open_error" \/ f.st = "no_permission" THEN failed
               ELSE IF io = "dump_error"
                 THEN [file |-> Damaged("invalid_json"), ret |-> FALSE]
               ELSE [file |-> ListFile(JsonDump(unique_data)), ret |-> TRUE]

----------------------------------------------------------------------------
(* Texts and the price normaliser (wb_selenium_scraper.py) *)

\* A text is a sequence of characters; NNBSP is U+202F (narrow no-break
\* space), the group separator the scraper's own price patterns name beside
\* the space (line 165), and RUB is the rouble sign.
Digits == {"0", "1", "2", "3", "4", "5", "6", "7", "8", "9"}
IsDigit(c) == c \in Digits
\* Python's whitespace: \s of re, str.strip, and what float() strips.
IsSpace(c) == c \in {" ", "NNBSP", "LF"}

RECURSIVE LStrip(_)
LStrip(t) == IF t # <<>> /\ IsSpace(Head(t)) THEN LStrip(Tail(t)) ELSE t
RECURSIVE RStrip(_)
RStrip(t) ==
    IF t # <<>> /\ IsSpace(t[Len(t)]) THEN RStrip(SubSeq(t, 1, Len(t) - 1)) ELSE t
Strip(t) == RStrip(LStrip(t))

\* A price: None, or a decimal number with its fraction digits (normalised:
\* no trailing zero).
None == [some |-> FALSE, units |-> 0, frac |-> <<>>]
Number(units, frac) == [some |-> TRUE, units |-> units, frac |-> frac]

RECURSIVE DropLeadingZeros(_)
DropLeadingZeros(ds) ==
    IF ds # <<>> /\ Head(ds) = "0" THEN DropLeadingZeros(Tail(ds)) ELSE ds
RECURSIVE DropTrailingZeros(_)
DropTrailingZeros(ds) ==
    IF ds # <<>> /\ ds[Len(ds)] = "0"
      THEN DropTrailingZeros(SubSeq(ds, 1, Len(ds) - 1)) ELSE ds

RECURSIVE DigitsValue(_)
DigitsValue(ds) ==
    IF ds = <<>> THEN 0
    ELSE 10 * DigitsValue(SubSeq(ds, 1, Len(ds) - 1)) + DigitOf(ds[Len(ds)])

\* The plausibility band of a Wildberries price (line 150).
WbPriceMin == 10
WbPriceMax == 1000000
\* Digits of the largest integer part the band admits.
WbPriceMaxDigits == 7

\* A band check that lets any number of up to nine digits through.
InBandWithoutLimits(ip, fp, lo, hi, hiDigits) ==
    Len(DropLeadingZeros(ip)) <= hiDigits + 2

\* The band without its lower limit.
InBandWithoutFloor(ip, fp, lo, hi, hiDigits) ==
    LET sig == DropLeadingZeros(ip)
    IN /\ Len(sig) <= hiDigits
       /\ \/ DigitsValue(sig) < hi
          \/ DigitsValue(sig) = hi /\ DropTrailingZeros(fp) = <<>>

\* lo <= float <= hi for the number with integer digits ip and fraction digits
\* fp; an integer part of more digits than hi has lies above the band.
InBand(ip, fp, lo, hi, hiDigits) ==
    LET sig == DropLeadingZeros(ip)
    IN /\ Len(sig) <= hiDigits
       /\ lo <= DigitsValue(sig)
       /\ \/ DigitsValue(sig) < hi
          \/ DigitsValue(sig) = hi /\ DropTrailingZeros(fp) = <<>>

\* float(s) for s of digits, dots and whitespace: the outer whitespace is
\* stripped; what is left must be digits with at most one dot and at least
\* one digit, else ValueError.
DotAt(t) == CHOOSE i \in 1..Len(t) : t[i] = "."
FloatParses(s) ==
    LET t == Strip(s)
    IN /\ t # <<>>
       /\ \A i \in 1..Len(t) : IsDigit(t[i]) \/ t[i] = "."
       /\ Cardinality({i \in 1..Len(t) : t[i] = "."}) <= 1
       /\ \E i \in 1..Len(t) : IsDigit(t[i])
FloatIntDigits(s) ==
    LET t == Strip(s)
    IN IF \E i \in 1..Len(t) : t[i] = "." THEN SubSeq(t, 1, DotAt(t) - 1) ELSE t
FloatFracDigits(s) ==
    LET t == Strip(s)
    IN IF \E i \in 1..Len(t) : t[i] = "." THEN SubSeq(t, DotAt(t) + 1, Len(t)) ELSE <<>>

\* Line 141: re.sub(r'[^\d\s,.]', '', ...) keeps these characters.
KeptByPriceRegex(c) == IsDigit(c) \/ IsSpace(c) \/ c \in {",", "."}
\* Line 143: replace(' ', '') removes the ASCII space.
NotAsciiSpace(c) == c # " "

\* extract_price_from_text(text), lines 134-154.
extract_price_from_text(text) ==
    IF text = <<>> THEN None
    ELSE LET kept == SelectSeq(Strip(text), KeptByPriceRegex)
             unspaced == SelectSeq(kept, NotAsciiSpace)
             clean_text == [i \in 1..Len(unspaced) |->
                              IF unspaced[i] = "," THEN "." ELSE unspaced[i]]
         IN IF clean_text = <<>> THEN None
            ELSE IF ~FloatParses(clean_text) THEN None          \* ValueError
            ELSE IF InBand(FloatIntDigits(clean_text), FloatFracDigits(clean_text),
                           WbPriceMin, WbPriceMax, WbPriceMaxDigits)
              THEN Number(DigitsValue(DropLeadingZeros(FloatIntDigits(clean_text))),
                          DropTrailingZeros(FloatFracDigits(clean_text)))
            ELSE None

\* Price-bearing texts: a leading group of one to three digits, groups of
\* three digits each after a thousands separator, a decimal comma with its
\* digits, a currency suffix.
PriceParts ==
    [lead : {<<"5">>, <<"1", "2">>, <<"9", "9", "0">>},
     groups : SeqsUpTo([sep : {<<" ">>, <<"NNBSP">>},
                        digits : {<<"0", "0", "0">>, <<"9", "9", "0">>}],
                       MaxGroups),
     frac : {<<>>, <<"5">>, <<"5", "0">>},
     suffix : {<<>>, <<" ", "RUB">>, <<"NNBSP", "RUB">>}]

RECURSIVE RenderGroups(_)
RenderGroups(gs) ==
    IF gs = <<>> THEN <<>>
    ELSE Head(gs).sep \o Head(gs).digits \o RenderGroups(Tail(gs))

RenderPrice(parts) ==
    parts.lead \o RenderGroups(parts.groups)
        \o (IF parts.frac = <<>> THEN <<>> ELSE <<",">> \o parts.frac)
        \o parts.suffix

TextIdle ==
    /\ price_parts = [lead |-> <<>>, groups |-> <<>>, frac |-> <<>>, suffix |-> <<>>]
    /\ price_text = <<>>
    /\ price_result = None
    /\ ppc = "idle"

InitPriceText ==
    /\ price_parts \in PriceParts
    /\ price_text = RenderPrice(price_parts)
    /\ price_result = None
    /\ ppc = "call"

ExtractPriceFromText ==
    /\ ppc = "call"
    /\ price_result' = extract_price_from_text(price_text)
    /\ ppc' = "returned"
    /\ UNCHANGED <<price_parts, price_text>>
    /\ UNCHANGED notTextVars

NextPriceText == ExtractPriceFromText

----------------------------------------------------------------------------
(* Letters, words and the name cleaner (wb_selenium_scraper.py) *)

AsciiLower ==
    <<"a", "b", "c", "d", "e", "f", "g", "h", "i", "j", "k", "l", "m", "n",
      "o", "p", "q", "r", "s", "t", "u", "v", "w", "x", "y", "z">>
AsciiUpper ==
    <<"A", "B", "C", "D", "E", "F", "G", "H", "I", "J", "K", "L", "M", "N",
      "O", "P", "Q", "R", "S", "T", "U", "V", "W", "X", "Y", "Z">>
\* The Cyrillic letters of the ranges a-ya and A-YA of line 173, written as
\* bracketed transliterations; the letter yo lies outside both ranges.
CyrillicLower ==
    <<"[a]", "[b]", "[v]", "[g]", "[d]", "[e]", "[zh]", "[z]", "[i]",
      "[j]", "[k]", "[l]", "[m]", "[n]", "[o]", "[p]", "[r]", "[s]", "[t]",
      "[u]", "[f]", "[h]", "[c]", "[ch]", "[sh]", "[sch]", "[hard]", "[y]",
      "[soft]", "[eh]", "[yu]", "[ya]">>
CyrillicUpper ==
    <<"[A]", "[B]", "[V]", "[G]", "[D]", "[E]", "[ZH]", "[Z]", "[I]",
      "[J]", "[K]", "[L]", "[M]", "[N]", "[O]", "[P]", "[R]", "[S]", "[T]",
      "[U]", "[F]", "[H]", "[C]", "[CH]", "[SH]", "[SCH]", "[HARD]", "[Y]",
      "[SOFT]", "[EH]", "[YU]", "[YA]">>

LowerLetters == AsciiLower \o CyrillicLower \o <<"[yo]">>
UpperLetters == AsciiUpper \o CyrillicUpper \o <<"[YO]">>
Range(f) == {f[i] : i \in DOMAIN f}

\* str.lower() and re.IGNORECASE, character by character.
UpperLetterSet == Range(UpperLetters)
LowerOf == [c \in UpperLetterSet |->
              LowerLetters[CHOOSE i \in 1..Len(UpperLetters) : UpperLetters[i] = c]]
LowerChar(c) == IF c \in UpperLetterSet THEN LowerOf[c] ELSE c
Lower(t) == [i \in 1..Len(t) |-> LowerChar(t[i])]

\* \w of re: letters, digits and the underscore.
WordChars == Range(LowerLetters) \cup Range(UpperLetters) \cup Digits \cup {"_"}
IsWordChar(c) == c \in WordChars

\* phrase in text
Contains(t, phrase) ==
    \E i \in 1..(Len(t) - Len(phrase) + 1) : SubSeq(t, i, i + Len(phrase) - 1) = phrase

\* Line 162: re.sub(r'\s+', ' ', name).strip()
RECURSIVE CollapseSpaces(_)
CollapseSpaces(t) ==
    IF t = <<>> THEN <<>>
    ELSE IF IsSpace(Head(t)) THEN <<" ">> \o CollapseSpaces(LStrip(t))
    ELSE <<Head(t)>> \o CollapseSpaces(Tail(t))

AllDigits(t, from, n) ==
    /\ from + n - 1 <= Len(t)
    /\ \A k \in from..(from + n - 1) : IsDigit(t[k])
\* The class [ NNBSP] of the price patterns (line 165).
IsGroupSep(c) == c \in {" ", "NNBSP"}
SepAt(t, at, n) == n = 0 \/ (at <= Len(t) /\ IsGroupSep(t[at]))

\* Line 165: \d{1,3}[ NNBSP]?\d{3}[ NNBSP]?\d{0,3}[ NNBSP]?RUB matches at i.
PriceTailAt(t, i) ==
    \E a \in 1..3, s1 \in 0..1, c \in 0..3, s2 \in 0..1, s3 \in 0..1 :
        /\ AllDigits(t, i, a)
        /\ SepAt(t, i + a, s1)
        /\ AllDigits(t, i + a + s1, 3)
        /\ SepAt(t, i + a + s1 + 3, s2)
        /\ AllDigits(t, i + a + s1 + 3 + s2, c)
        /\ SepAt(t, i + a + s1 + 3 + s2 + c, s3)
        /\ i + a + s1 + 3 + s2 + c + s3 <= Len(t)
        /\ t[i + a + s1 + 3 + s2 + c + s3] = "RUB"

\* Line 165: the text up to the leftmost match (the match runs to the end).
RemovePriceTail(t) ==
    LET at == {i \in 1..Len(t) : PriceTailAt(t, i)}
    IN IF at = {} THEN t
       ELSE SubSeq(t, 1, (CHOOSE i \in at : \A j \in at : i <= j) - 1)

\* \b between t[k - 1] and t[k].
WordCharAt(t, k) == k \in 1..Len(t) /\ IsWordChar(t[k])
BoundaryAt(t, k) == WordCharAt(t, k - 1) # WordCharAt(t, k)

\* Line 170: re.sub(f'\\b{word}\\b', '', name, flags=re.IGNORECASE), scanning
\* from position i.
RECURSIVE RemoveWordFrom(_, _, _)
RemoveWordFrom(t, word, i) ==
    IF i > Len(t) THEN <<>>
    ELSE IF /\ i + Len(word) - 1 <= Len(t)
            /\ Lower(SubSeq(t, i, i + Len(word) - 1)) = Lower(word)
            /\ BoundaryAt(t, i)
            /\ BoundaryAt(t, i + Len(word))
      THEN RemoveWordFrom(t, word, i + Len(word))
      ELSE <<t[i]>> \o RemoveWordFrom(t, word, i + 1)

\* Line 168: words_to_remove.
words_to_remove ==
    << <<"[k]", "[u]", "[p]", "[i]", "[t]", "[soft]">>,
       <<"[c]", "[e]", "[n]", "[a]">>,
       <<"[d]", "[o]", "[s]", "[t]", "[a]", "[v]", "[k]", "[a]">>,
       <<"[v]", " ", "[k]", "[o]", "[r]", "[z]", "[i]", "[n]", "[u]">>,
       <<"RUB">>,
       <<"[r]", "[u]", "[b]">> >>

RECURSIVE RemoveWords(_, _)
RemoveWords(t, words) ==
    IF words = <<>> THEN t
    ELSE RemoveWords(RemoveWordFrom(t, Head(words), 1), Tail(words))

\* Line 173: the class [a-zA-Z, Cyrillic a-ya and A-YA, 0-9, /] kept at the ends.
EdgeChars ==
    Range(AsciiLower) \cup Range(AsciiUpper) \cup Range(CyrillicLower)
        \cup Range(CyrillicUpper) \cup Digits \cup {"/"}
KeptAtEnds(c) == c \in EdgeChars
RECURSIVE LTrimEnds(_)
LTrimEnds(t) == IF t # <<>> /\ ~KeptAtEnds(Head(t)) THEN LTrimEnds(Tail(t)) ELSE t
RECURSIVE RTrimEnds(_)
RTrimEnds(t) ==
    IF t # <<>> /\ ~KeptAtEnds(t[Len(t)]) THEN RTrimEnds(SubSeq(t, 1, Len(t) - 1)) ELSE t

\* The placeholder name of line 159.
UnknownProduct ==
    <<"[N]", "[e]", "[i]", "[z]", "[v]", "[e]", "[s]", "[t]", "[n]", "[y]", "[j]",
      " ", "[t]", "[o]", "[v]", "[a]", "[r]">>

\* clean_product_name(name), lines 156-175.
clean_product_name(name_) ==
    IF name_ = <<>> THEN UnknownProduct
    ELSE Strip(RTrimEnds(LTrimEnds(
            RemoveWords(RemovePriceTail(Strip(CollapseSpaces(name_))),
                        words_to_remove))))

----------------------------------------------------------------------------
(* The Wildberries scraper: collect_product_data and its extractors *)

\* Optional[str]: None or a text.
NoText == [some |-> FALSE, text |-> <<>>]
Text(t) == [some |-> TRUE, text |-> t]

\* Lines 264-268: block_indicators.
block_indicators ==
    << <<"[v]", "[k]", "[l]", "[yu]", "[ch]", "[i]", "[t]", "[e]", " ", "j", "a", "v", "a", "s", "c", "r", "i", "p", "t">>,
       <<"[v]", "[y]", " ", "[n]", "[e]", " ", "[r]", "[o]", "[b]", "[o]", "[t]">>,
       <<"c", "h", "e", "c", "k", "i", "n", "g", " ", "y", "o", "u", "r", " ", "b", "r", "o", "w", "s", "e", "r">>,
       <<"p", "l", "e", "a", "s", "e", " ", "w", "a", "i", "t">>,
       <<"[d]", "[o]", "[s]", "[t]", "[u]", "[p]", " ", "[o]", "[g]", "[r]", "[a]", "[n]", "[i]", "[ch]", "[e]", "[n]">>,
       <<"c", "a", "p", "t", "c", "h", "a">>,
       <<"[k]", "[a]", "[p]", "[ch]", "[a]">>,
       <<"[d]", "[o]", "[s]", "[t]", "[u]", "[p]", " ", "[k]", " ", "[s]", "[a]", "[j]", "[t]", "[u]", " ", "[z]", "[a]", "[k]", "[r]", "[y]", "[t]">>,
       <<"b", "l", "o", "c", "k", "e", "d">>,
       <<"s", "e", "c", "u", "r", "i", "t", "y", " ", "c", "h", "e", "c", "k">> >>

\* The check without the lower-casing of the title and of the body text.
is_blocked_as_written(pg) ==
    IF ~pg.title_ok THEN FALSE
    ELSE IF ~pg.body_ok THEN FALSE
    ELSE \E k \in 1..Len(block_indicators) :
            \/ Contains(pg.body, block_indicators[k])
            \/ Contains(pg.title, block_indicators[k])

\* The check failing closed: a title or a body text that cannot be read counts
\* as a block.
is_blocked_failing_closed(pg) ==
    IF ~pg.title_ok THEN TRUE
    ELSE IF ~pg.body_ok THEN TRUE
    ELSE LET page_title == Lower(pg.title)
             body_text == Lower(pg.body)
         IN \E k \in 1..Len(block_indicators) :
                \/ Contains(body_text, block_indicators[k])
                \/ Contains(page_title, block_indicators[k])

\* is_blocked(driver), lines 258-277. The page gives its title and the text of
\* its body, or the read of one of them raises (the bare except returns False).
is_blocked(pg) ==
    IF ~pg.title_ok THEN FALSE
    ELSE IF ~pg.body_ok THEN FALSE
    ELSE LET page_title == Lower(pg.title)
             body_text == Lower(pg.body)
         IN \E k \in 1..Len(block_indicators) :
                \/ Contains(body_text, block_indicators[k])
                \/ Contains(page_title, block_indicators[k])

Wildberries == <<"W", "i", "l", "d", "b", "e", "r", "r", "i", "e", "s">>

\* \s*[NDASH-]\s*Wildberries matches at i (line 314).
RECURSIVE SkipSpaces(_, _)
SkipSpaces(t, i) == IF i <= Len(t) /\ IsSpace(t[i]) THEN SkipSpaces(t, i + 1) ELSE i
SiteSuffixAt(t, i) ==
    LET d == SkipSpaces(t, i)
        w == SkipSpaces(t, d + 1)
    IN /\ d <= Len(t)
       /\ t[d] \in {"NDASH", "-"}
       /\ w + Len(Wildberries) - 1 <= Len(t)
       /\ SubSeq(t, w, w + Len(Wildberries) - 1) = Wildberries

\* Line 314: re.sub(r'\s*[NDASH-]\s*Wildberries.*$', '', meta_title).
RemoveSiteSuffix(t) ==
    LET at == {i \in 1..Len(t) : SiteSuffixAt(t, i)}
    IN IF at = {} THEN t
       ELSE SubSeq(t, 1, (CHOOSE i \in at : \A j \in at : i <= j) - 1)

\* Lines 296-307: the selector loop over the texts of the elements found (a
\* selector that finds nothing times out and the loop goes on).
RECURSIVE NameFromSelectors(_)
NameFromSelectors(texts) ==
    IF texts = <<>> THEN NoText
    ELSE LET name_ == Strip(Head(texts))
         IN IF name_ # <<>> /\ Len(name_) > 3
              THEN Text(clean_product_name(name_))
              ELSE NameFromSelectors(Tail(texts))

\* Lines 310-319: the page title as the name.
NameFromTitle(meta_title) ==
    IF ~meta_title.some THEN NoText                  \* the script call raised
    ELSE IF meta_title.text # <<>> /\ Len(meta_title.text) > 10
      THEN LET clean_title == RemoveSiteSuffix(meta_title.text)
           IN IF Len(clean_title) > 10
                THEN Text(clean_product_name(clean_title))
                ELSE NoText
    ELSE NoText

\* extract_product_name(driver, article), lines 279-322.
extract_product_name(texts, meta_title) ==
    LET found == NameFromSelectors(texts)
    IN IF found.some THEN found ELSE NameFromTitle(meta_title)

\* Lines 341-351 and 425-435: the first element text extract_price_from_text
\* gives a price for.
\* "if price:" for an Optional[float]: None and 0.0 do not pass.
Truthy(p) == p.some /\ ~(p.units = 0 /\ DropTrailingZeros(p.frac) = <<>>)

RECURSIVE FirstPriceOfTexts(_)
FirstPriceOfTexts(texts) ==
    IF texts = <<>> THEN None
    ELSE LET price_ == extract_price_from_text(Strip(Head(texts)))
         IN IF Truthy(price_) THEN price_ ELSE FirstPriceOfTexts(Tail(texts))

\* Lines 354-366: the elements whose text holds the rouble sign; an element
\* without text of its own is read through its parent, and a failing read of
\* the parent ends the search.
RECURSIVE PriceOfRubElements(_)
PriceOfRubElements(elems) ==
    IF elems = <<>> THEN None
    ELSE LET elem == Head(elems)
         IN IF elem.text = <<>> /\ ~elem.parent.some THEN None
            ELSE LET parent_text == IF elem.text = <<>> THEN elem.parent.text
                                                        ELSE elem.text
                     price_ == extract_price_from_text(parent_text)
                 IN IF Truthy(price_) THEN price_
                    ELSE PriceOfRubElements(Tail(elems))

\* Lines 387-393: the fields the patterns read, in the order of the patterns.
patterns == <<"price", "finalPrice", "salePriceU", "priceU", "currentPrice">>

\* Line 401: 'PriceU' in pattern (the test tells upper from lower case).
HasPriceU(pattern) == pattern \in {"salePriceU"}

\* float(match) / 100 for a match of digits.
DivideBy100(ds) ==
    LET padded == IF Len(ds) < 3 THEN SubSeq(<<"0", "0", "0">>, 1, 3 - Len(ds)) \o ds
                  ELSE ds
    IN [ip |-> SubSeq(padded, 1, Len(padded) - 2),
        fp |-> SubSeq(padded, Len(padded) - 1, Len(padded))]

\* Lines 397-408: the value of one match, None when it lies outside the band.
ScriptPrice(pattern, match) ==
    LET parts == IF HasPriceU(pattern) THEN DivideBy100(FloatIntDigits(match))
                 ELSE [ip |-> FloatIntDigits(match), fp |-> FloatFracDigits(match)]
    IN IF InBand(parts.ip, parts.fp, WbPriceMin, WbPriceMax, WbPriceMaxDigits)
         THEN Number(DigitsValue(DropLeadingZeros(parts.ip)), DropTrailingZeros(parts.fp))
         ELSE None

\* re.findall(pattern, script_content): the captured values of the field, in
\* the order of the text.
FindAll(pattern, fields) ==
    LET Is(f) == f.key = pattern
        hits == SelectSeq(fields, Is)
    IN [i \in 1..Len(hits) |-> hits[i].value]

RECURSIVE PriceOfMatches(_, _)
PriceOfMatches(pattern, matches) ==
    IF matches = <<>> THEN None
    ELSE LET price_val == ScriptPrice(pattern, Head(matches))
         IN IF price_val.some THEN price_val
            ELSE PriceOfMatches(pattern, Tail(matches))

RECURSIVE PriceOfPatterns(_, _)
PriceOfPatterns(ps, fields) ==
    IF ps = <<>> THEN None
    ELSE LET found == PriceOfMatches(Head(ps), FindAll(Head(ps), fields))
         IN IF found.some THEN found ELSE PriceOfPatterns(Tail(ps), fields)

\* extract_price_from_scripts(driver, article), lines 376-412: a script is read
\* when it mentions the article (line 384).
RECURSIVE extract_price_from_scripts(_)
extract_price_from_scripts(scripts) ==
    IF scripts = <<>> THEN None
    ELSE LET found == PriceOfPatterns(patterns, Head(scripts).fields)
         IN IF Head(scripts).mentions_article /\ found.some THEN found
            ELSE extract_price_from_scripts(Tail(scripts))

\* The two searches of extract_availability in the other order: the order
\* buttons before the out-of-stock indicators.
extract_availability_buttons_first(out_of_stock_displayed, order_button_usable, price_) ==
    IF order_button_usable THEN "V nalichii"
    ELSE IF out_of_stock_displayed THEN "Net v nalichii"
    ELSE IF price_.some /\ price_.units = 0 /\ price_.frac = <<>> THEN "Neizvestno"
    ELSE "V nalichii"

\* extract_availability(driver, price), lines 439-484; the labels are
\* transliterated.
extract_availability(out_of_stock_displayed, order_button_usable, price_) ==
    IF out_of_stock_displayed THEN "Net v nalichii"
    ELSE IF order_button_usable THEN "V nalichii"
    ELSE IF price_.some /\ price_.units = 0 /\ price_.frac = <<>> THEN "Neizvestno"
    ELSE "V nalichii"

\* re.search(r'(\d+[.,]\d+)', source): the leftmost digits, separator, digits.
RECURSIVE DigitRunEnd(_, _)
DigitRunEnd(t, i) == IF i <= Len(t) /\ IsDigit(t[i]) THEN DigitRunEnd(t, i + 1) ELSE i
DecimalAt(t, i) ==
    LET e == DigitRunEnd(t, i)
    IN /\ e > i
       /\ e + 1 <= Len(t)
       /\ t[e] \in {".", ","}
       /\ IsDigit(t[e + 1])
HasDecimal(t) == \E i \in 1..Len(t) : DecimalAt(t, i)
FirstDecimal(t) ==
    LET i == CHOOSE k \in 1..Len(t) : DecimalAt(t, k) /\ \A j \in 1..(k - 1) : ~DecimalAt(t, j)
        e == DigitRunEnd(t, i)
    IN [ip |-> SubSeq(t, i, e - 1), fp |-> SubSeq(t, e + 1, DigitRunEnd(t, e + 1) - 1)]

\* The rating scale (line 516).
RatingMin == 0
RatingMax == 5
RatingMaxDigits == 1

\* Lines 511-518: the sources of one element in order; an absent or empty
\* source is skipped.
RECURSIVE RatingOfSources(_)
RatingOfSources(sources) ==
    IF sources = <<>> THEN None
    ELSE LET source == Head(sources)
             match == FirstDecimal(source)
         IN IF source # <<>> /\ HasDecimal(source)
                /\ InBand(match.ip, match.fp, RatingMin, RatingMax, RatingMaxDigits)
              THEN Number(DigitsValue(DropLeadingZeros(match.ip)),
                          DropTrailingZeros(match.fp))
              ELSE RatingOfSources(Tail(sources))

\* re.search(r'(\d+)', text): the leftmost run of digits.
HasDigits(t) == \E i \in 1..Len(t) : IsDigit(t[i])
FirstDigits(t) ==
    LET i == CHOOSE k \in 1..Len(t) : IsDigit(t[k]) /\ \A j \in 1..(k - 1) : ~IsDigit(t[j])
    IN SubSeq(t, i, DigitRunEnd(t, i) - 1)

\* extract_reviews_count(driver), lines 524-551: text.replace(' ', '') before
\* the search.
RECURSIVE extract_reviews_count(_)
extract_reviews_count(texts) ==
    IF texts = <<>> THEN 0
    ELSE LET text == SelectSeq(Strip(Head(texts)), NotAsciiSpace)
         IN IF HasDigits(text) THEN DigitsValue(FirstDigits(text))
            ELSE extract_reviews_count(Tail(texts))

\* ProductData (lines 24-35) and the absence of one; url is a function of the
\* article and collected_at is the clock's reading, both left out.
NoProduct ==
    [some |-> FALSE, marketplace |-> "", article |-> <<>>, name |-> <<>>,
     price |-> None, old_price |-> None, availability |-> "", rating |-> None,
     reviews_count |-> 0]
ProductData(m, a, n, p, o, av, r, c) ==
    [some |-> TRUE, marketplace |-> m, article |-> a, name |-> n, price |-> p,
     old_price |-> o, availability |-> av, rating |-> r, reviews_count |-> c]

\* extract_old_price(driver), lines 414-437.
extract_old_price(texts) == FirstPriceOfTexts(texts)

\* extract_rating(driver), lines 486-522: one element per selector that finds
\* one, each with its sources.
RECURSIVE extract_rating(_)
extract_rating(elems) ==
    IF elems = <<>> THEN None
    ELSE LET found == RatingOfSources(Head(elems))
         IN IF found.some THEN found ELSE extract_rating(Tail(elems))

----------------------------------------------------------------------------
(* The Ozon scraper: extract_product_info_immediately and its extractors *)

\* Lines 138-146: the href of the first link that has one.
RECURSIVE FirstHref(_)
FirstHref(hrefs) ==
    IF hrefs = <<>> THEN NoText
    ELSE IF Head(hrefs) # <<>> THEN Text(Head(hrefs))
    ELSE FirstHref(Tail(hrefs))

StartsAt(t, i, w) == i + Len(w) - 1 <= Len(t) /\ SubSeq(t, i, i + Len(w) - 1) = w

\* The start of the run of digits that ends at e - 1.
RECURSIVE DigitRunStart(_, _)
DigitRunStart(t, e) ==
    IF e > 1 /\ IsDigit(t[e - 1]) THEN DigitRunStart(t, e - 1) ELSE e

ProductPrefix == <<"/", "p", "r", "o", "d", "u", "c", "t", "/">>

\* r'/product/[^/]*?(\d+)/' matches at i: the path segment after /product/
\* ends in digits and a slash follows it.
RECURSIVE SegmentEnd(_, _)
SegmentEnd(t, i) == IF i <= Len(t) /\ t[i] # "/" THEN SegmentEnd(t, i + 1) ELSE i
ProductIdAt(t, i) ==
    /\ StartsAt(t, i, ProductPrefix)
    /\ LET e == SegmentEnd(t, i + Len(ProductPrefix))
       IN e <= Len(t) /\ DigitRunStart(t, e) < e
ProductId(t, i) ==
    LET e == SegmentEnd(t, i + Len(ProductPrefix))
    IN SubSeq(t, DigitRunStart(t, e), e - 1)

\* The digits before the end of the url, an optional slash allowed: (\d+)/?$.
TailDigitsEnd(t) == IF t # <<>> /\ t[Len(t)] = "/" THEN Len(t) ELSE Len(t) + 1
\* r'--(\d+)/?$' and r'/(\d+)/?$' with their mark before the digits.
TailIdAfter(t, mark) ==
    LET e == TailDigitsEnd(t)
        starts == {s \in 1..(e - 1) :
                      /\ \A k \in s..(e - 1) : IsDigit(t[k])
                      /\ s - Len(mark) >= 1
                      /\ SubSeq(t, s - Len(mark), s - 1) = mark}
    IN IF starts = {} THEN <<>>
       ELSE SubSeq(t, CHOOSE s \in starts : \A r \in starts : s <= r, e - 1)

\* extract_article_from_url(url), lines 186-198.
extract_article_from_url(url) ==
    LET at == {i \in 1..Len(url) : ProductIdAt(url, i)}
    IN IF at # {} THEN ProductId(url, CHOOSE i \in at : \A j \in at : i <= j)
       ELSE LET after_dashes == TailIdAfter(url, <<"-", "-">>)
            IN IF after_dashes # <<>> THEN after_dashes ELSE TailIdAfter(url, <<"/">>)

\* The first line of element.text (line 276).
RECURSIVE FirstLine(_)
FirstLine(t) ==
    IF t = <<>> \/ Head(t) = "LF" THEN <<>> ELSE <<Head(t)>> \o FirstLine(Tail(t))

RECURSIVE TitleOfTexts(_)
TitleOfTexts(texts) ==
    IF texts = <<>> THEN NoText
    ELSE LET title_text == Strip(Head(texts))
         IN IF title_text # <<>> /\ Len(title_text) > 10 THEN Text(title_text)
            ELSE TitleOfTexts(Tail(texts))

\* extract_product_name(element), lines 251-285.
ozon_extract_product_name(element_) ==
    IF TitleOfTexts(element_.titles).some THEN TitleOfTexts(element_.titles)
    ELSE LET text == FirstLine(element_.text)
         IN IF text # <<>> /\ Len(text) > 10 THEN Text(text) ELSE NoText

\* The plausibility band of an Ozon price (lines 225 and 243).
OzonPriceMin == 1000
OzonPriceMax == 100000
OzonPriceMaxDigits == 6

OnlyDigits(t) == SelectSeq(t, IsDigit)

\* Lines 214-228: the texts of the price elements.
RECURSIVE OzonPriceOfTexts(_)
OzonPriceOfTexts(texts) ==
    IF texts = <<>> THEN None
    ELSE LET price_text_ == Strip(Head(texts))
             \* [^\d\s] removed, then \s+ removed: the digits are left
             clean_text == OnlyDigits(price_text_)
         IN IF /\ price_text_ # <<>>
               /\ Len(clean_text) >= 3
               /\ InBand(clean_text, <<>>, OzonPriceMin, OzonPriceMax, OzonPriceMaxDigits)
              THEN Number(DigitsValue(DropLeadingZeros(clean_text)), <<>>)
              ELSE OzonPriceOfTexts(Tail(texts))

\* The group \d{1,3}[ NNBSP]?\d{3}[ NNBSP]?\d{0,3} of lines 233-234: the
\* lengths <<a, s1, s2, c>> it can take at i, and the one the greedy match takes.
GroupLensAt(t, i) ==
    {g \in (1..3) \X (0..1) \X (0..1) \X (0..3) :
        /\ AllDigits(t, i, g[1])
        /\ SepAt(t, i + g[1], g[2])
        /\ AllDigits(t, i + g[1] + g[2], 3)
        /\ SepAt(t, i + g[1] + g[2] + 3, g[3])
        /\ AllDigits(t, i + g[1] + g[2] + 3 + g[3], g[4])}
Greed(g) == ((g[1] * 2 + g[2]) * 2 + g[3]) * 4 + g[4]
GroupLenAt(t, i) ==
    LET g == CHOOSE x \in GroupLensAt(t, i) : \A y \in GroupLensAt(t, i) : Greed(y) <= Greed(x)
    IN g[1] + g[2] + 3 + g[3] + g[4]

\* re.findall of the first pattern, the group then [ NNBSP]?RUB?, from i on.
RECURSIVE FindPricesBeforeRub(_, _)
FindPricesBeforeRub(t, i) ==
    IF i > Len(t) THEN <<>>
    ELSE IF ~IsDigit(t[i]) \/ GroupLensAt(t, i) = {} THEN FindPricesBeforeRub(t, i + 1)
    ELSE LET e == i + GroupLenAt(t, i)
             s == IF e <= Len(t) /\ IsGroupSep(t[e]) THEN e + 1 ELSE e
             r == IF s <= Len(t) /\ t[s] = "RUB" THEN s + 1 ELSE s
         IN <<SubSeq(t, i, e - 1)>> \o FindPricesBeforeRub(t, r)

RECURSIVE SkipGroupSeps(_, _)
SkipGroupSeps(t, i) ==
    IF i <= Len(t) /\ IsGroupSep(t[i]) THEN SkipGroupSeps(t, i + 1) ELSE i

\* re.findall of the second pattern, RUB[ NNBSP]* then the group, from i on.
RECURSIVE FindPricesAfterRub(_, _)
FindPricesAfterRub(t, i) ==
    IF i > Len(t) THEN <<>>
    ELSE IF t[i] = "RUB" /\ GroupLensAt(t, SkipGroupSeps(t, i + 1)) # {}
      THEN LET b == SkipGroupSeps(t, i + 1)
               e == b + GroupLenAt(t, b)
           IN <<SubSeq(t, b, e - 1)>> \o FindPricesAfterRub(t, e)
    ELSE FindPricesAfterRub(t, i + 1)

\* Lines 237-244: the first match inside the band.
RECURSIVE OzonPriceOfMatches(_)
OzonPriceOfMatches(matches) ==
    IF matches = <<>> THEN None
    ELSE LET clean_price == OnlyDigits(Head(matches))
         IN IF InBand(clean_price, <<>>, OzonPriceMin, OzonPriceMax, OzonPriceMaxDigits)
              THEN Number(DigitsValue(DropLeadingZeros(clean_price)), <<>>)
              ELSE OzonPriceOfMatches(Tail(matches))

\* extract_accurate_price(element, driver), lines 200-249.
extract_accurate_price(element_) ==
    LET found == OzonPriceOfTexts(element_.price_texts)
    IN IF found.some THEN found
       ELSE IF ~element_.text_ok THEN None     \* element.text raises, line 231
       ELSE OzonPriceOfMatches(FindPricesBeforeRub(element_.text, 1)
                                   \o FindPricesAfterRub(element_.text, 1))

\* extract_rating(element), lines 287-309: no range check.
RECURSIVE ozon_extract_rating(_)
ozon_extract_rating(texts) ==
    IF texts = <<>> THEN None
    ELSE LET rating_text == Strip(Head(texts))
             match == FirstDecimal(rating_text)
         IN IF rating_text # <<>> /\ HasDecimal(rating_text)
              THEN Number(DigitsValue(DropLeadingZeros(match.ip)),
                          DropTrailingZeros(match.fp))
              ELSE ozon_extract_rating(Tail(texts))

\* extract_reviews_count(element), lines 311-333.
RECURSIVE ozon_extract_reviews_count(_)
ozon_extract_reviews_count(texts) ==
    IF texts = <<>> THEN 0
    ELSE LET reviews_text == Strip(Head(texts))
         IN IF reviews_text # <<>> /\ HasDigits(reviews_text)
              THEN DigitsValue(FirstDigits(reviews_text))
              ELSE ozon_extract_reviews_count(Tail(texts))

\* Line 355: the floor of an old price.
OzonOldPriceFloor == 1000

\* extract_old_price(element), lines 335-361.
RECURSIVE ozon_extract_old_price(_)
ozon_extract_old_price(texts) ==
    IF texts = <<>> THEN None
    ELSE LET old_text == Strip(Head(texts))
             clean_text == OnlyDigits(old_text)
         IN IF /\ old_text # <<>>
               /\ Len(clean_text) >= 3
               /\ DigitsValue(DropLeadingZeros(clean_text)) > OzonOldPriceFloor
              THEN Number(DigitsValue(DropLeadingZeros(clean_text)), <<>>)
              ELSE ozon_extract_old_price(Tail(texts))

\* extract_product_info_immediately(element, driver), lines 128-184.
extract_product_info_immediately(element_) ==
    LET product_url == FirstHref(element_.hrefs)
        article_ == extract_article_from_url(product_url.text)
        name_ == ozon_extract_product_name(element_)
        price_ == extract_accurate_price(element_)
    IN IF ~product_url.some THEN NoProduct
       ELSE IF article_ = <<>> THEN NoProduct
       ELSE IF ~name_.some \/ name_.text = <<>> THEN NoProduct
       ELSE IF ~price_.some \/ price_.units = 0 \/ price_.units < OzonPriceMin THEN NoProduct
       ELSE ProductData("Ozon", article_, name_.text, price_,
                        ozon_extract_old_price(element_.old_price_texts), "",
                        ozon_extract_rating(element_.rating_texts),
                        ozon_extract_reviews_count(element_.reviews_texts))

----------------------------------------------------------------------------
(* The pages and elements the scrapers meet *)

\* The identifiers of the configuration: the empty one is what an empty YAML
\* string gives.
Articles == { <<>>, <<"1", "2">> }

\* A loaded page: its title, the text of its body, and whether reading each
\* succeeds (a page that reloads under the reader makes the read raise).
Pages ==
    [title : { <<"[CH]", "[a]", "[j]", "[n]", "[i]", "[k]", " ", "B", "o", "s", "c", "h", " ", "NDASH", " ", "W", "i", "l", "d", "b", "e", "r", "r", "i", "e", "s">>,
      <<"C", "a", "p", "t", "c", "h", "a">>,
      <<"[CH]", "[a]", "[j]", "[n]", "[i]", "[k]", " ", "-", " ", "W", "i", "l", "d", "b", "e", "r", "r", "i", "e", "s">> },
     body : { <<"[V]", "[y]", " ", "[n]", "[e]", " ", "[r]", "[o]", "[b]", "[o]", "[t]", "?">>,
      <<"[CH]", "[a]", "[j]", "[n]", "[i]", "[k]", " ", "1", " ", "9", "9", "0", " ", "RUB">> },
     title_ok : BOOLEAN,
     body_ok : BOOLEAN]
NoPage == [title |-> <<>>, body |-> <<>>, title_ok |-> TRUE, body_ok |-> TRUE]

\* What the searches of the name and of the price find: up to MaxElements
\* elements each. The texts of the elements the name selectors find:
NameTextLists ==
    SeqsUpTo({ <<"[CH]", "[a]", "[j]">>,
      <<"[CH]", "[a]", "[j]", "[n]", "[i]", "[k]", " ", "[k]", "[u]", "[p]", "[i]", "[t]", "[soft]">>,
      <<"[k]", "[u]", "[p]", "[i]", "[t]", "[soft]", " ", "[c]", "[e]", "[n]", "[a]">>,
      <<"[CH]", "[a]", "[j]", "[n]", "[i]", "[k]", " ", "1", " ", "9", "9", "0", " ", "RUB", " ", "[v]", " ", "[k]", "[o]", "[r]", "[z]", "[i]", "[n]", "[u]">> }, MaxElements)
\* the texts of the elements the price selectors find,
PriceTextLists ==
    SeqsUpTo({ <<"1", " ", "9", "9", "0", " ", "RUB">>,
      <<"5", " ", "RUB">>,
      <<"0", " ", "RUB">>,
      <<"1", "NNBSP", "9", "9", "0", " ", "RUB">>,
      <<"2", " ", "0", "0", "0", " ", "0", "0", "0", " ", "RUB">>,
      <<"1", "2", ",", "5", " ", "RUB">> }, MaxElements)
\* the elements whose text holds the rouble sign, with the text of the parent
\* (NoText: reading it raises),
RubElementLists ==
    SeqsUpTo([text : {<<>>, <<"5", " ", "RUB">>, <<"1", "2", ",", "5", " ", "RUB">>},
              parent : {NoText, Text(<<"1", " ", "9", "9", "0", " ", "RUB">>), Text(<<"2", " ", "0", "0", "0", " ", "0", "0", "0", " ", "RUB">>)}],
             MaxElements)
\* the scripts: whether one mentions the article, and the price fields in it.
ScriptLists ==
    SeqsUpTo([mentions_article : BOOLEAN,
              fields : { <<>>,
                         <<[key |-> "priceU", value |-> <<"1", "9", "9", "0", "0", "0">>], [key |-> "salePriceU", value |-> <<"1", "4", "9", "0", "0", "0">>]>>,
                         <<[key |-> "priceU", value |-> <<"1", "9", "9", "0">>]>>,
                         <<[key |-> "price", value |-> <<"5">>], [key |-> "currentPrice", value |-> <<"1", "9", ".", "9", "0">>]>>,
                         <<[key |-> "salePriceU", value |-> <<"5", "0", "0">>], [key |-> "finalPrice", value |-> <<"2", "0", "0", "0", "0", "0", "0">>]>> }],
             MaxElements)
OldPriceTextLists ==
    { <<>>, <<<<"2", " ", "4", "9", "0", " ", "RUB">>>>, <<<<"5", " ", "RUB">>, <<"2", " ", "4", "9", "0", " ", "RUB">>>>, <<<<"2", " ", "0", "0", "0", " ", "0", "0", "0", " ", "RUB">>>> }
\* One element per rating selector that finds one, each with its sources (text,
\* data-rate, data-rating, content, value), an absent source being empty.
RatingElementLists ==
    { <<>>,
      << <<<<"4", ",", "8">>, <<>>>> >>,
      << <<<<"4", "8", " ", "[o]", "[c]", "[e]", "[n]", "[o]", "[k]">>>>, <<<<>>, <<"9", ".", "5">>, <<"4", ".", "5", " ", "[i]", "[z]", " ", "5">>>> >>,
      << <<<<>>, <<>>, <<>>, <<>>, <<"9", ".", "5">>>> >> }
ReviewsTextLists ==
    { <<>>, <<<<"1", " ", "2", "3", "4", " ", "[o]", "[t]", "[z]", "[y]", "[v]", "[a]">>>>, <<<<"[o]", "[t]", "[z]", "[y]", "[v]", "[y]">>, <<"1", "NNBSP", "2", "3", "4", " ", "[o]", "[t]", "[z]", "[y]", "[v]", "[a]">>>>, <<<<"[o]", "[t]", "[z]", "[y]", "[v]", "[y]">>>> }

\* The cards of the Ozon search page: the hrefs of the links found, the texts
\* of the title elements, the text of the card (text_ok: reading it succeeds),
\* and the texts of the price, rating, review and old price elements.
OzonElements ==
    [hrefs : { <<>>,
               <<<<>>, <<"/", "p", "r", "o", "d", "u", "c", "t", "/", "t", "v", "-", "1", "2", "3", "/">>>>,
               <<<<"/", "p", "r", "o", "d", "u", "c", "t", "/", "t", "v", "/">>>>,
               <<<<"/", "p", "r", "o", "d", "u", "c", "t", "/", "t", "v", "-", "-", "4", "5">>>> },
     titles : { <<>>,
                <<<<"[T]", "[e]", "[l]", "[e]", "[v]", "[i]", "[z]", "[o]", "[r]">>, <<"[U]", "[m]", "[n]", "[y]", "[j]", " ", "[t]", "[e]", "[l]", "[e]", "[v]", "[i]", "[z]", "[o]", "[r]", " ", "3", "2">>>> },
     text : { <<"[U]", "[m]", "[n]", "[y]", "[j]", " ", "[t]", "[e]", "[l]", "[e]", "[v]", "[i]", "[z]", "[o]", "[r]", "LF", "1", "2", " ", "9", "9", "0", " ", "RUB">>,
      <<"[T]", "[V]", "LF", "RUB", " ", "9", "9", "0">>,
      <<"[T]", "[V]", " ", "[u]", "[m]", "[n]", "[y]", "[j]", " ", "5", "0", "0", " ", "0", "0", "0", " ", "RUB">> },
     text_ok : BOOLEAN,
     price_texts : { <<>>,
                     <<<<"1", "2", " ", "9", "9", "0", " ", "RUB">>>>,
                     <<<<"9", "9", "0", " ", "RUB">>, <<"1", "2", " ", "9", "9", "0", " ", "RUB">>>>,
                     <<<<"5", "0", "0", " ", "0", "0", "0", " ", "RUB">>>>,
                     <<<<"[o]", "[t]", " ", "1", " ", "9", "9", "0", " ", "RUB", " ", "2", " ", "4", "9", "0", " ", "RUB">>>> },
     rating_texts : { <<>>, <<<<"4", ".", "8">>>>, <<<<"4", "8", ".", "5">>>> },
     reviews_texts : { <<>>, <<<<"1", " ", "2", "3", "4", " ", "[o]", "[t]", "[z]", "[y]", "[v]", "[a]">>>> },
     old_price_texts : { <<>>, <<<<"1", "5", " ", "9", "9", "0", " ", "RUB">>>>, <<<<"1", " ", "0", "0", "0", " ", "RUB">>>>, <<<<"9", "9", "9", " ", "9", "9", "9", " ", "RUB">>>> }]
NoElement ==
    [hrefs |-> <<>>, titles |-> <<>>, text |-> <<>>, text_ok |-> TRUE,
     price_texts |-> <<>>, rating_texts |-> <<>>, reviews_texts |-> <<>>,
     old_price_texts |-> <<>>]

----------------------------------------------------------------------------
(* collect_product_data step by step, and the Ozon card extraction *)

\* Between the calls.
ScrapeIdle ==
    /\ wpc = "idle"
    /\ article = <<>>
    /\ driver = "None"
    /\ session = "none"
    /\ exc = "none"
    /\ page = NoPage
    /\ blocked = "none"
    /\ invoked = {}
    /\ name = NoText
    /\ price = None
    /\ price_source = "none"
    /\ old_price = None
    /\ availability = ""
    /\ rating = None
    /\ reviews_count = 0
    /\ result = NoProduct
    /\ opc = "idle"
    /\ element = NoElement
    /\ product_info = NoProduct

\* main.py line 95: the call for one identifier (lines 181-187).
WbCall ==
    /\ wpc = "idle"
    /\ opc = "idle"
    /\ \E a \in Articles :
          /\ wpc' = "setup"
          /\ article' = a
          /\ UNCHANGED <<driver, session, exc, page, blocked, invoked, name, price,
                         price_source, old_price, availability, rating, reviews_count,
                         result>>
          /\ UNCHANGED <<ozonVars, notScrapeVars>>

\* Line 190 and setup_driver (lines 37-76): the browser starts and the driver
\* is returned; or webdriver.Chrome raises; or the browser starts and a later
\* line of setup_driver raises, so that driver stays None.
SetupOutcomes == {"ok", "fails_before_start", "fails_after_start"}
WbSetupDriver ==
    /\ wpc = "setup"
    /\ \E outcome \in SetupOutcomes :
          /\ driver' = IF outcome = "ok" THEN "set" ELSE "None"
          /\ session' = IF outcome = "fails_before_start" THEN "none" ELSE "open"
          /\ exc' = IF outcome = "ok" THEN "none" ELSE "raised"
          /\ wpc' = IF outcome = "ok" THEN "load" ELSE "except"
          /\ UNCHANGED <<article, page, blocked, invoked, name, price, price_source,
                         old_price, availability, rating, reviews_count, result>>
          /\ UNCHANGED <<ozonVars, notScrapeVars>>

\* Lines 191-201: the page load, the wait for it and the popups; a timeout or
\* a driver error raises.
WbLoadPage ==
    /\ wpc = "load"
    /\ \E ok \in BOOLEAN, pg \in Pages :
          /\ page' = IF ok THEN pg ELSE NoPage
          /\ exc' = IF ok THEN "none" ELSE "raised"
          /\ wpc' = IF ok THEN "check" ELSE "except"
          /\ UNCHANGED <<article, driver, session, blocked, invoked, name, price,
                         price_source, old_price, availability, rating, reviews_count,
                         result>>
          /\ UNCHANGED <<ozonVars, notScrapeVars>>

\* Lines 204-206.
WbIsBlocked ==
    /\ wpc = "check"
    /\ blocked' = IF is_blocked(page) THEN "True" ELSE "False"
    /\ wpc' = IF is_blocked(page) THEN "finally" ELSE "name"
    /\ UNCHANGED <<article, driver, session, exc, page, invoked, name, price,
                   price_source, old_price, availability, rating, reviews_count,
                   result>>
    /\ UNCHANGED <<ozonVars, notScrapeVars>>

\* Lines 209-212.
WbExtractName ==
    /\ wpc = "name"
    /\ \E texts \in NameTextLists, title_ok \in BOOLEAN :
          /\ invoked' = invoked \cup {"extract_product_name"}
          /\ LET meta_title == IF title_ok THEN Text(page.title) ELSE NoText
                 found == extract_product_name(texts, meta_title)
             IN /\ name' = found
                /\ wpc' = IF ~found.some \/ found.text = <<>> THEN "finally"
                          ELSE "price_selectors"
          /\ UNCHANGED <<article, driver, session, exc, page, blocked, price,
                         price_source, old_price, availability, rating, reviews_count,
                         result>>
          /\ UNCHANGED <<ozonVars, notScrapeVars>>

\* Line 215 and lines 341-351: the price selectors.
WbPriceFromSelectors ==
    /\ wpc = "price_selectors"
    /\ \E texts \in PriceTextLists :
          /\ invoked' = invoked \cup {"extract_product_price"}
          /\ LET found == FirstPriceOfTexts(texts)
             IN /\ price' = found
                /\ price_source' = IF found.some THEN "selector" ELSE "none"
                /\ wpc' = IF found.some THEN "old_price" ELSE "price_rub"
          /\ UNCHANGED <<article, driver, session, exc, page, blocked, name, old_price,
                         availability, rating, reviews_count, result>>
          /\ UNCHANGED <<ozonVars, notScrapeVars>>

\* Lines 354-366: the elements with the rouble sign.
WbPriceFromRubElements ==
    /\ wpc = "price_rub"
    /\ \E elems \in RubElementLists :
          /\ LET found == PriceOfRubElements(elems)
             IN /\ price' = found
                /\ price_source' = IF found.some THEN "rub" ELSE "none"
                /\ wpc' = IF found.some THEN "old_price" ELSE "price_scripts"
          /\ UNCHANGED <<article, driver, session, exc, page, blocked, invoked, name,
                         old_price, availability, rating, reviews_count, result>>
          /\ UNCHANGED <<ozonVars, notScrapeVars>>

\* Lines 369-374 and 216-218: the scripts; without a price the call ends.
WbPriceFromScripts ==
    /\ wpc = "price_scripts"
    /\ \E scripts \in ScriptLists :
          /\ LET found == extract_price_from_scripts(scripts)
             IN /\ price' = IF Truthy(found) THEN found ELSE None
                /\ price_source' = IF Truthy(found) THEN "scripts" ELSE "none"
                /\ wpc' = IF Truthy(found) THEN "old_price" ELSE "finally"
          /\ UNCHANGED <<article, driver, session, exc, page, blocked, invoked, name,
                         old_price, availability, rating, reviews_count, result>>
          /\ UNCHANGED <<ozonVars, notScrapeVars>>

\* Line 221.
WbExtractOldPrice ==
    /\ wpc = "old_price"
    /\ \E texts \in OldPriceTextLists :
          /\ invoked' = invoked \cup {"extract_old_price"}
          /\ old_price' = extract_old_price(texts)
          /\ wpc' = "availability"
          /\ UNCHANGED <<article, driver, session, exc, page, blocked, name, price,
                         price_source, availability, rating, reviews_count, result>>
          /\ UNCHANGED <<ozonVars, notScrapeVars>>

\* Line 224.
WbExtractAvailability ==
    /\ wpc = "availability"
    /\ \E out_of_stock_displayed \in BOOLEAN, order_button_usable \in BOOLEAN :
          /\ invoked' = invoked \cup {"extract_availability"}
          /\ availability' = extract_availability(out_of_stock_displayed,
                                                  order_button_usable, price)
          /\ wpc' = "rating"
          /\ UNCHANGED <<article, driver, session, exc, page, blocked, name, price,
                         price_source, old_price, rating, reviews_count, result>>
          /\ UNCHANGED <<ozonVars, notScrapeVars>>

\* Line 227.
WbExtractRating ==
    /\ wpc = "rating"
    /\ \E elems \in RatingElementLists :
          /\ invoked' = invoked \cup {"extract_rating"}
          /\ rating' = extract_rating(elems)
          /\ wpc' = "reviews"
          /\ UNCHANGED <<article, driver, session, exc, page, blocked, name, price,
                         price_source, old_price, availability, reviews_count, result>>
          /\ UNCHANGED <<ozonVars, notScrapeVars>>

\* Lines 230-245: the review count, then the record is built and returned.
WbExtractReviewsCount ==
    /\ wpc = "reviews"
    /\ \E texts \in ReviewsTextLists :
          /\ invoked' = invoked \cup {"extract_reviews_count"}
          /\ reviews_count' = extract_reviews_count(texts)
          /\ result' = ProductData("Wildberries", article, name.text, price, old_price,
                                   availability, rating, extract_reviews_count(texts))
          /\ wpc' = "finally"
          /\ UNCHANGED <<article, driver, session, exc, page, blocked, name, price,
                         price_source, old_price, availability, rating>>
          /\ UNCHANGED <<ozonVars, notScrapeVars>>

\* Lines 247-249: except Exception.
WbExcept ==
    /\ wpc = "except"
    /\ exc' = "none"
    /\ result' = NoProduct
    /\ wpc' = "finally"
    /\ UNCHANGED <<article, driver, session, page, blocked, invoked, name, price,
                   price_source, old_price, availability, rating, reviews_count>>
    /\ UNCHANGED <<ozonVars, notScrapeVars>>

\* Lines 250-256: driver.quit() when there is a driver; what quit raises is
\* logged and dropped.
WbFinally ==
    /\ wpc = "finally"
    /\ \E quit_raises \in BOOLEAN :
          /\ session' = IF driver = "set" THEN "quit" ELSE session
          /\ wpc' = "returned"
          /\ UNCHANGED <<article, driver, exc, page, blocked, invoked, name, price,
                         price_source, old_price, availability, rating, reviews_count,
                         result>>
          /\ UNCHANGED <<ozonVars, notScrapeVars>>

\* main.py lines 96-100: the caller takes the result and goes on.
WbResume ==
    /\ wpc = "returned"
    /\ wpc' = "idle"
    /\ article' = <<>>
    /\ driver' = "None"
    /\ session' = "none"
    /\ exc' = "none"
    /\ page' = NoPage
    /\ blocked' = "none"
    /\ invoked' = {}
    /\ name' = NoText
    /\ price' = None
    /\ price_source' = "none"
    /\ old_price' = None
    /\ availability' = ""
    /\ rating' = None
    /\ reviews_count' = 0
    /\ result' = NoProduct
    /\ UNCHANGED <<ozonVars, notScrapeVars>>

\* find_all_products_safe line 109: extract_product_info_immediately on one
\* card; whatever is raised inside gives None (lines 183-184).
OzonExtractProductInfo ==
    /\ opc = "idle"
    /\ wpc = "idle"
    /\ \E el \in OzonElements :
          /\ element' = el
          /\ product_info' = extract_product_info_immediately(el)
          /\ opc' = "returned"
          /\ UNCHANGED <<wbVars, notScrapeVars>>

\* Lines 110-119: the caller takes the result and goes on to the next card.
OzonResume ==
    /\ opc = "returned"
    /\ opc' = "idle"
    /\ element' = NoElement
    /\ product_info' = NoProduct
    /\ UNCHANGED <<wbVars, notScrapeVars>>

NextScrape ==
    \/ WbCall
    \/ WbSetupDriver
    \/ WbLoadPage
    \/ WbIsBlocked
    \/ WbExtractName
    \/ WbPriceFromSelectors
    \/ WbPriceFromRubElements
    \/ WbPriceFromScripts
    \/ WbExtractOldPrice
    \/ WbExtractAvailability
    \/ WbExtractRating
    \/ WbExtractReviewsCount
    \/ WbExcept
    \/ WbFinally
    \/ WbResume
    \/ OzonExtractProductInfo
    \/ OzonResume

----------------------------------------------------------------------------
(* The extractors called on their own, on what a page can give them *)

\* No extractor is being called.
CallIdle ==
    /\ fn = "none"
    /\ args = <<>>
    /\ value = <<>>

\* extract_availability, lines 453-460: what each out-of-stock selector meets:
\* no element (find_element raises), a hidden one, a displayed one, or one
\* that went stale (is_displayed raises); the bare except goes on.
OutOfStockDisplayed(found) == \E k \in 1..Len(found) : found[k] = "displayed"

\* Lines 471-478: the same for the order buttons, which also have to be enabled.
OrderButtonUsable(found) == \E k \in 1..Len(found) : found[k] = "usable"

\* The texts the name selectors meet, and the titles of the page.
NameCallTexts ==
    NameTextLists
        \cup { << <<"[CH]", "[a]", "[j]", " ", "[k]", "[u]", "[p]", "[i]", "[t]", "[soft]">> >> }
TitleCallTexts ==
    {NoText} \cup {Text(pg.title) : pg \in Pages}
        \cup {Text(<<"[CH]", "[a]", "[j]", "[n]", "[i]", "[k]", " ", "[k]", "[u]", "[p]", "[i]", "[t]", "[soft]">>)}

\* The texts the review selectors meet.
ReviewsCallTexts ==
    ReviewsTextLists
        \cup { << <<"1", "2", " ", "[o]", "[t]", "[z]", "[y]", "[v]", "[o]", "[v]">> >>,
               << <<"2", "5", " ", "1", "0", "0", " ", "[o]", "[c]", "[e]", "[n]", "[o]", "[k]">> >> }

\* What the selectors of extract_availability meet, one entry per selector
\* reached, and the prices it is called with.
OutOfStockFinds == SeqsUpTo({"absent", "hidden", "displayed", "stale"}, MaxElements)
OrderButtonFinds == SeqsUpTo({"absent", "hidden", "disabled", "usable", "stale"}, MaxElements)
AvailabilityPrices == {Number(0, <<>>), Number(1990, <<>>), Number(12, <<"5">>)}

\* extract_product_name(driver, article), lines 279-322.
CallExtractProductName ==
    /\ fn = "none"
    /\ \E texts \in NameCallTexts, meta_title \in TitleCallTexts :
          /\ fn' = "extract_product_name"
          /\ args' = [texts |-> texts, meta_title |-> meta_title]
          /\ value' = extract_product_name(texts, meta_title)
    /\ UNCHANGED notCallVars

\* extract_price_from_scripts(driver, article), lines 376-412.
CallExtractPriceFromScripts ==
    /\ fn = "none"
    /\ \E scripts \in ScriptLists :
          /\ fn' = "extract_price_from_scripts"
          /\ args' = scripts
          /\ value' = extract_price_from_scripts(scripts)
    /\ UNCHANGED notCallVars

\* extract_availability(driver, price), lines 439-484.
CallExtractAvailability ==
    /\ fn = "none"
    /\ \E out_of_stock \in OutOfStockFinds, in_stock \in OrderButtonFinds,
          price_ \in AvailabilityPrices :
          /\ fn' = "extract_availability"
          /\ args' = [out_of_stock |-> out_of_stock, in_stock |-> in_stock,
                      price |-> price_]
          /\ value' = extract_availability(OutOfStockDisplayed(out_of_stock),
                                           OrderButtonUsable(in_stock), price_)
    /\ UNCHANGED notCallVars

\* extract_reviews_count(driver) of the Wildberries scraper, lines 524-551.
CallExtractReviewsCount ==
    /\ fn = "none"
    /\ \E texts \in ReviewsCallTexts :
          /\ fn' = "extract_reviews_count"
          /\ args' = texts
          /\ value' = extract_reviews_count(texts)
    /\ UNCHANGED notCallVars

\* extract_reviews_count(element) of the Ozon scraper, lines 311-333.
CallOzonExtractReviewsCount ==
    /\ fn = "none"
    /\ \E texts \in ReviewsCallTexts :
          /\ fn' = "ozon_extract_reviews_count"
          /\ args' = texts
          /\ value' = ozon_extract_reviews_count(texts)
    /\ UNCHANGED notCallVars

\* The caller has the value.
CallReturn ==
    /\ fn # "none"
    /\ fn' = "none"
    /\ args' = <<>>
    /\ value' = <<>>
    /\ UNCHANGED notCallVars

NextCall ==
    \/ CallExtractProductName
    \/ CallExtractPriceFromScripts
    \/ CallExtractAvailability
    \/ CallExtractReviewsCount
    \/ CallOzonExtractReviewsCount
    \/ CallReturn

----------------------------------------------------------------------------
(* The scraping part of a run: main (main.py lines 70-110) with             *)
(* search_target_products, and collect_multiple_products                    *)

\* The cards a search page shows: two of product 123 at different prices, one
\* of product 45, and one without a link.
SearchCards ==
    { [hrefs |-> <<<<"/", "p", "r", "o", "d", "u", "c", "t", "/", "t", "v", "-", "1", "2", "3", "/">>>>,
       titles |-> <<<<"[U]", "[m]", "[n]", "[y]", "[j]", " ", "[t]", "[e]", "[l]", "[e]", "[v]", "[i]", "[z]", "[o]", "[r]", " ", "3", "2">>>>,
       text |-> <<>>, text_ok |-> TRUE,
       price_texts |-> <<<<"1", "2", " ", "9", "9", "0", " ", "RUB">>>>,
       rating_texts |-> <<>>, reviews_texts |-> <<>>, old_price_texts |-> <<>>],
      [hrefs |-> <<<<"/", "p", "r", "o", "d", "u", "c", "t", "/", "t", "v", "-", "1", "2", "3", "/">>>>,
       titles |-> <<<<"[U]", "[m]", "[n]", "[y]", "[j]", " ", "[t]", "[e]", "[l]", "[e]", "[v]", "[i]", "[z]", "[o]", "[r]", " ", "3", "2">>>>,
       text |-> <<>>, text_ok |-> TRUE,
       price_texts |-> <<<<"1", "5", " ", "9", "9", "0", " ", "RUB">>>>,
       rating_texts |-> <<>>, reviews_texts |-> <<>>, old_price_texts |-> <<>>],
      [hrefs |-> <<<<"/", "p", "r", "o", "d", "u", "c", "t", "/", "t", "v", "-", "-", "4", "5">>>>,
       titles |-> <<<<"[U]", "[m]", "[n]", "[y]", "[j]", " ", "[t]", "[e]", "[l]", "[e]", "[v]", "[i]", "[z]", "[o]", "[r]", " ", "4", "3">>>>,
       text |-> <<>>, text_ok |-> TRUE,
       price_texts |-> <<<<"1", "2", " ", "9", "9", "0", " ", "RUB">>>>,
       rating_texts |-> <<>>, reviews_texts |-> <<>>, old_price_texts |-> <<>>],
      NoElement }
SearchCardLists == SeqsUpTo(SearchCards, MaxElements)

\* The identifier lists of the configuration; a list may name an identifier
\* more than once.
OzonArticleLists == SeqsUpTo({ <<"1", "2", "3">>, <<"4", "5">> }, MaxData)
WbArticleLists == SeqsUpTo({ <<"1", "2">>, <<"3", "4">> }, MaxData)

\* The collection without the test of seen_articles: every extracted card is kept.
RECURSIVE find_all_products_without_seen(_, _)
find_all_products_without_seen(elements, products_data) ==
    IF elements = <<>> THEN products_data
    ELSE LET info == extract_product_info_immediately(Head(elements))
         IN find_all_products_without_seen(Tail(elements),
                IF info.some THEN Append(products_data, info)
                ELSE products_data)

\* find_all_products_safe(driver), lines 75-126: the cards the selectors find,
\* in order, each extracted at once and kept when its article is new.
RECURSIVE find_all_products_safe(_, _)
find_all_products_safe(elements, products_data) ==
    IF elements = <<>> THEN products_data
    ELSE LET info == extract_product_info_immediately(Head(elements))
             seen == \E k \in 1..Len(products_data) :
                        products_data[k].article = info.article
         IN find_all_products_safe(Tail(elements),
                IF info.some /\ ~seen THEN Append(products_data, info)
                ELSE products_data)

\* remove_duplicates(products), lines 416-437: the first record of each article.
RECURSIVE remove_duplicates(_, _)
remove_duplicates(products, unique_products) ==
    IF products = <<>> THEN unique_products
    ELSE LET seen == \E k \in 1..Len(unique_products) :
                        unique_products[k].article = Head(products).article
         IN remove_duplicates(Tail(products),
                IF seen THEN unique_products
                ELSE Append(unique_products, Head(products)))

\* Lines 391-397: the records of the target articles, without repeats.
TargetProducts(products, target_articles) ==
    LET IsTarget(p) == \E k \in 1..Len(target_articles) : target_articles[k] = p.article
    IN remove_duplicates(SelectSeq(products, IsTarget), <<>>)

\* collect_product_data(article) as its caller meets it (lines 181-256): None
\* or a record of that article; leaked tells that setup_driver raised after
\* the browser had started, which leaves driver None for the finally clause
\* and so gives None.
CollectOutcomes(a) ==
    { [product |-> NoProduct, leaked |-> TRUE], [product |-> NoProduct, leaked |-> FALSE] }
    \cup { [product |-> ProductData("Wildberries", a,
                                    <<"[CH]", "[a]", "[j]", "[n]", "[i]", "[k]">>, p, None,
                                    "V nalichii", None, 0),
            leaked |-> FALSE] : p \in {Number(1990, <<>>), Number(1490, <<>>)} }

\* No run is going on.
RunIdle ==
    /\ rpc = "idle"
    /\ entry = "none"
    /\ ozon_articles = <<>>
    /\ wb_articles = <<>>
    /\ cards = <<>>
    /\ all_products_data = <<>>
    /\ found_products = <<>>
    /\ wb_products = <<>>
    /\ wb_index = 1
    /\ open_browsers = 0
    /\ quit_raised = FALSE
    /\ trace = <<>>
    /\ attempted = <<>>

\* A run is about to start from main or from collect_multiple_products.
RunStart ==
    /\ rpc = "start"
    /\ \/ entry = "main" /\ ozon_articles \in OzonArticleLists
       \/ entry = "collect_multiple_products" /\ ozon_articles = <<>>
    /\ wb_articles \in WbArticleLists
    /\ cards = <<>>
    /\ all_products_data = <<>>
    /\ found_products = <<>>
    /\ wb_products = <<>>
    /\ wb_index = 1
    /\ open_browsers = 0
    /\ quit_raised = FALSE
    /\ trace = <<>>
    /\ attempted = <<>>

\* main.py lines 63-77: without any identifier main returns; the Ozon scraper
\* runs when there are Ozon identifiers.
MainStart ==
    /\ rpc = "start"
    /\ entry = "main"
    /\ rpc' = IF ozon_articles = <<>> /\ wb_articles = <<>> THEN "done"
              ELSE IF ozon_articles # <<>> THEN "ozon_setup"
              ELSE "wb_start"
    /\ UNCHANGED <<entry, ozon_articles, wb_articles, cards, all_products_data,
                   found_products, wb_products, wb_index, open_browsers, quit_raised,
                   trace>>
    /\ UNCHANGED <<all_products, attempted, notRunVars>>

\* search_target_products line 369 and setup_driver (lines 22-50), before the
\* try: the browser starts and the driver is returned; or webdriver.Chrome
\* raises; or the browser starts and stealth or the script raises. What is
\* raised here leaves search_target_products.
OzonSetupDriver ==
    /\ rpc = "ozon_setup"
    /\ \E outcome \in SetupOutcomes :
          /\ open_browsers' = IF outcome = "fails_before_start" THEN open_browsers
                              ELSE open_browsers + 1
          /\ rpc' = IF outcome = "ok" THEN "ozon_get" ELSE "ozon_raised"
          /\ trace' = IF outcome = "ok" THEN Append(trace, "ozon_session") ELSE trace
    /\ UNCHANGED <<entry, ozon_articles, wb_articles, cards, all_products_data,
                   found_products, wb_products, wb_index, quit_raised>>
    /\ UNCHANGED <<all_products, attempted, notRunVars>>

\* Lines 375-382: the search page is loaded and scrolled, or the driver raises.
OzonLoadPage ==
    /\ rpc = "ozon_get"
    /\ \E ok \in BOOLEAN, found \in SearchCardLists :
          /\ cards' = IF ok THEN found ELSE <<>>
          /\ rpc' = IF ok THEN "ozon_find" ELSE "ozon_except"
          /\ trace' = IF ok THEN Append(trace, "ozon_page") ELSE trace
    /\ UNCHANGED <<entry, ozon_articles, wb_articles, all_products_data,
                   found_products, wb_products, wb_index, open_browsers, quit_raised>>
    /\ UNCHANGED <<all_products, attempted, notRunVars>>

\* Lines 385-405: the cards are extracted, then filtered by the targets.
OzonFindProducts ==
    /\ rpc = "ozon_find"
    /\ all_products_data' = find_all_products_safe(cards, <<>>)
    /\ found_products' = TargetProducts(find_all_products_safe(cards, <<>>), ozon_articles)
    /\ trace' = IF cards # <<>> THEN Append(trace, "ozon_extract") ELSE trace
    /\ rpc' = "ozon_finally"
    /\ UNCHANGED <<entry, ozon_articles, wb_articles, cards, wb_products, wb_index,
                   open_browsers, quit_raised>>
    /\ UNCHANGED <<all_products, attempted, notRunVars>>

\* Lines 407-410: except Exception.
OzonExcept ==
    /\ rpc = "ozon_except"
    /\ rpc' = "ozon_finally"
    /\ UNCHANGED <<entry, ozon_articles, wb_articles, cards, all_products_data,
                   found_products, wb_products, wb_index, open_browsers, quit_raised,
                   trace>>
    /\ UNCHANGED <<all_products, attempted, notRunVars>>

\* Lines 411-414: driver.quit() in the finally clause, not guarded; what it
\* raises leaves search_target_products in place of the return.
OzonFinally ==
    /\ rpc = "ozon_finally"
    /\ \E quit_raises \in BOOLEAN :
          /\ quit_raised' = quit_raises
          /\ rpc' = IF quit_raises THEN "ozon_raised" ELSE "ozon_returned"
    /\ open_browsers' = open_browsers - 1
    /\ trace' = Append(trace, "ozon_quit")
    /\ UNCHANGED <<entry, ozon_articles, wb_articles, cards, all_products_data,
                   found_products, wb_products, wb_index>>
    /\ UNCHANGED <<all_products, attempted, notRunVars>>

\* main.py lines 78-80: the products returned are added to all_products.
MainOzonExtend ==
    /\ rpc = "ozon_returned"
    /\ all_products' = all_products \o found_products
    /\ rpc' = "wb_start"
    /\ UNCHANGED <<entry, ozon_articles, wb_articles, cards, all_products_data,
                   found_products, wb_products, wb_index, open_browsers, quit_raised,
                   trace>>
    /\ UNCHANGED <<attempted, notRunVars>>

\* main.py lines 81-82: what search_target_products raised is logged.
MainOzonExcept ==
    /\ rpc = "ozon_raised"
    /\ rpc' = "wb_start"
    /\ trace' = Append(trace, "ozon_error_logged")
    /\ UNCHANGED <<entry, ozon_articles, wb_articles, cards, all_products_data,
                   found_products, wb_products, wb_index, open_browsers, quit_raised>>
    /\ UNCHANGED <<all_products, attempted, notRunVars>>

\* main.py lines 87-92: the Wildberries loop starts when there are identifiers.
\* The page and the locals of search_target_products, gone with its frame,
\* are dropped here: nothing from here on reads them.
MainWbStart ==
    /\ rpc = "wb_start"
    /\ rpc' = IF wb_articles # <<>> THEN "wb_loop" ELSE "save"
    /\ wb_index' = 1
    /\ wb_products' = <<>>
    /\ cards' = <<>>
    /\ all_products_data' = <<>>
    /\ found_products' = <<>>
    /\ UNCHANGED <<entry, ozon_articles, wb_articles, open_browsers, quit_raised, trace>>
    /\ UNCHANGED <<all_products, attempted, notRunVars>>

\* The loop with a retry: a turn that got no record is taken again.
MainWbCollectWithRetry ==
    /\ rpc = "wb_loop"
    /\ wb_index <= Len(wb_articles)
    /\ Len(attempted) < 2 * Len(wb_articles)
    /\ \E outcome \in CollectOutcomes(wb_articles[wb_index]) :
          /\ wb_products' = IF outcome.product.some
                              THEN Append(wb_products, outcome.product)
                              ELSE wb_products
          /\ open_browsers' = IF outcome.leaked THEN open_browsers + 1 ELSE open_browsers
          /\ wb_index' = IF outcome.product.some THEN wb_index + 1 ELSE wb_index
    /\ trace' = Append(trace, "call")
    /\ attempted' = Append(attempted, wb_articles[wb_index])
    /\ UNCHANGED <<rpc, entry, ozon_articles, wb_articles, cards, all_products_data,
                   found_products, quit_raised>>
    /\ UNCHANGED <<all_products, notRunVars>>

\* main.py lines 93-100: one turn of the loop; the next turn follows at once.
MainWbCollect ==
    /\ rpc = "wb_loop"
    /\ wb_index <= Len(wb_articles)
    /\ \E outcome \in CollectOutcomes(wb_articles[wb_index]) :
          /\ wb_products' = IF outcome.product.some
                              THEN Append(wb_products, outcome.product)
                              ELSE wb_products
          /\ open_browsers' = IF outcome.leaked THEN open_browsers + 1 ELSE open_browsers
    /\ wb_index' = wb_index + 1
    /\ trace' = Append(trace, "call")
    /\ attempted' = Append(attempted, wb_articles[wb_index])
    /\ UNCHANGED <<rpc, entry, ozon_articles, wb_articles, cards, all_products_data,
                   found_products, quit_raised>>
    /\ UNCHANGED <<all_products, notRunVars>>

\* main.py lines 102-110: wb_products is added; the save block gets all_products.
MainWbExtend ==
    /\ rpc = "wb_loop"
    /\ wb_index > Len(wb_articles)
    /\ all_products' = all_products \o wb_products
    /\ rpc' = "save"
    /\ UNCHANGED <<entry, ozon_articles, wb_articles, cards, all_products_data,
                   found_products, wb_products, wb_index, open_browsers, quit_raised,
                   trace>>
    /\ UNCHANGED <<attempted, notRunVars>>

\* collect_multiple_products lines 602-603.
CmpStart ==
    /\ rpc = "start"
    /\ entry = "collect_multiple_products"
    /\ rpc' = IF wb_articles # <<>> THEN "cmp_loop" ELSE "cmp_return"
    /\ UNCHANGED <<entry, ozon_articles, wb_articles, cards, all_products_data,
                   found_products, wb_products, wb_index, open_browsers, quit_raised,
                   trace>>
    /\ UNCHANGED <<all_products, attempted, notRunVars>>

\* Lines 605-612: one turn of the loop up to the test for the last identifier.
CmpCollect ==
    /\ rpc = "cmp_loop"
    /\ \E outcome \in CollectOutcomes(wb_articles[wb_index]) :
          /\ wb_products' = IF outcome.product.some
                              THEN Append(wb_products, outcome.product)
                              ELSE wb_products
          /\ open_browsers' = IF outcome.leaked THEN open_browsers + 1 ELSE open_browsers
    /\ trace' = Append(trace, "call")
    /\ attempted' = Append(attempted, wb_articles[wb_index])
    /\ rpc' = IF wb_index < Len(wb_articles) THEN "cmp_delay" ELSE "cmp_return"
    /\ UNCHANGED <<entry, ozon_articles, wb_articles, cards, all_products_data,
                   found_products, wb_index, quit_raised>>
    /\ UNCHANGED <<all_products, notRunVars>>

\* Lines 613-615: time.sleep(random.uniform(5, 10)), then the next identifier.
CmpDelay ==
    /\ rpc = "cmp_delay"
    /\ trace' = Append(trace, "delay")
    /\ wb_index' = wb_index + 1
    /\ rpc' = "cmp_loop"
    /\ UNCHANGED <<entry, ozon_articles, wb_articles, cards, all_products_data,
                   found_products, wb_products, open_browsers, quit_raised>>
    /\ UNCHANGED <<all_products, attempted, notRunVars>>

NextRun ==
    \/ MainStart
    \/ OzonSetupDriver
    \/ OzonLoadPage
    \/ OzonFindProducts
    \/ OzonExcept
    \/ OzonFinally
    \/ MainOzonExtend
    \/ MainOzonExcept
    \/ MainWbStart
    \/ MainWbCollect
    \/ MainWbExtend
    \/ CmpStart
    \/ CmpCollect
    \/ CmpDelay

----------------------------------------------------------------------------
(* main: the save block (main.py lines 109-123) over successive runs *)

NoRet == [snapshot |-> "none", latest |-> "none"]
RetOf(b) == IF b THEN "True" ELSE "False"

\* One call of a storage sink: which sink, the list it was handed, and whether
\* it saved (save_to_json returned True, save_to_csv a path,
\* save_to_google_sheets True).
Sink(sink, products, saved) == [sink |-> sink, products |-> products, saved |-> saved]

\* config['storage']: csv_enabled (True when absent) and google_sheets_enabled
\* (False when absent), data_storage.py lines 251 and 261.
StorageConfigs == [csv_enabled : BOOLEAN, google_sheets_enabled : BOOLEAN]
DefaultStorageConfig == [csv_enabled |-> TRUE, google_sheets_enabled |-> FALSE]

\* What the two sinks of DataStorage meet when they write: for each, whether
\* the write goes through.
StorageIOs == [csv : BOOLEAN, google_sheets : BOOLEAN]
StorageWorks == [csv |-> TRUE, google_sheets |-> TRUE]

\* save with a failure of the CSV sink ending the call.
save_stopping_at_failure(products, config, csv_saved, gs_saved) ==
    (IF config.csv_enabled THEN <<Sink("csv", products, csv_saved)>> ELSE <<>>)
    \o (IF config.google_sheets_enabled /\ (config.csv_enabled => csv_saved)
          THEN <<Sink("google_sheets", products, gs_saved)>> ELSE <<>>)

\* DataStorage.save(products), data_storage.py lines 243-269, for a list that
\* is not empty: the calls of save_to_csv and save_to_google_sheets it makes.
\* save_to_csv catches what its body raises and returns None (lines 76-133);
\* save_to_google_sheets returns False without a client and catches what its
\* body raises (lines 148-241). Neither writes to the list.
save(products, config, csv_saved, gs_saved) ==
    (IF config.csv_enabled THEN <<Sink("csv", products, csv_saved)>> ELSE <<>>)
    \o (IF config.google_sheets_enabled
          THEN <<Sink("google_sheets", products, gs_saved)>> ELSE <<>>)

\* The latest file a first run may find: none, a damaged one, or a list left by
\* earlier runs or edited by hand (repeated keys included).
InitialLatest ==
    {NoFile} \cup {Damaged(k) : k \in DamageKinds}
             \cup {ListFile(JsonDump(d)) : d \in SeqsUpTo(Products, 2)}

InitStore ==
    /\ latest \in InitialLatest
    /\ snapshots = [t \in Timestamps |-> NoFile]
    /\ runs = 0
    /\ mpc = "start"
    /\ all_products = <<>>
    /\ timestamp_file = "none"
    /\ prior_latest = NoFile
    /\ write_outcome = "none"
    /\ ret = NoRet
    /\ sinks = <<>>
    /\ storage_config = DefaultStorageConfig
    /\ storage_io = StorageWorks

StoreIdle ==
    /\ latest = NoFile
    /\ snapshots = [t \in Timestamps |-> NoFile]
    /\ runs = 0
    /\ mpc = "idle"
    /\ all_products = <<>>
    /\ timestamp_file = "none"
    /\ prior_latest = NoFile
    /\ write_outcome = "none"
    /\ ret = NoRet
    /\ sinks = <<>>
    /\ storage_config = DefaultStorageConfig
    /\ storage_io = StorageWorks

\* Lines 70-110: the scrapers fill all_products; an empty collection skips the
\* save block (line 145).
MainCollect(d) ==
    /\ mpc = "start"
    /\ runs < MaxRuns
    /\ runs' = runs + 1
    /\ all_products' = d
    /\ mpc' = IF d = <<>> THEN "done" ELSE "snapshot"
    /\ UNCHANGED <<latest, snapshots, timestamp_file, prior_latest, write_outcome, ret,
                   sinks, storage_config, storage_io>>
    /\ UNCHANGED notStoreVars

\* Lines 112-115: the timestamped file, named by the clock's second.
MainSnapshot(timestamp, io) ==
    /\ mpc = "snapshot"
    /\ LET r == save_to_json(all_products, snapshots[timestamp], FALSE, io)
       IN /\ snapshots' = [snapshots EXCEPT ![timestamp] = r.file]
          /\ ret' = [ret EXCEPT !.snapshot = RetOf(r.ret)]
          /\ sinks' = Append(sinks, Sink("snapshot", all_products, r.ret))
    /\ timestamp_file' = timestamp
    /\ mpc' = "latest"
    /\ UNCHANGED <<latest, runs, all_products, prior_latest, write_outcome,
                   storage_config, storage_io>>
    /\ UNCHANGED notStoreVars

\* Lines 117-123: the latest file, then storage.save(all_products).
MainLatest(io) ==
    /\ mpc = "latest"
    /\ LET r == save_to_json(all_products, latest, TRUE, io)
       IN /\ latest' = r.file
          /\ ret' = [ret EXCEPT !.latest = RetOf(r.ret)]
          /\ sinks' = Append(sinks, Sink("latest", all_products, r.ret))
                        \o save(all_products, storage_config, storage_io.csv,
                                storage_io.google_sheets)
    /\ prior_latest' = latest
    /\ write_outcome' = io
    /\ mpc' = "done"
    /\ UNCHANGED <<snapshots, runs, all_products, timestamp_file, storage_config,
                   storage_io>>
    /\ UNCHANGED notStoreVars

\* The process ends; a later run starts from the files it left.
MainExit ==
    /\ mpc = "done"
    /\ mpc' = "start"
    /\ all_products' = <<>>
    /\ timestamp_file' = "none"
    /\ prior_latest' = NoFile
    /\ write_outcome' = "none"
    /\ ret' = NoRet
    /\ sinks' = <<>>
    /\ UNCHANGED <<latest, snapshots, runs, storage_config, storage_io>>
    /\ UNCHANGED notStoreVars

NextStore ==
    \/ \E d \in RunLists : MainCollect(d)
    \/ \E timestamp \in Timestamps, io \in WriteOutcomes : MainSnapshot(timestamp, io)
    \/ \E io \in WriteOutcomes : MainLatest(io)
    \/ MainExit

\* The runs of main over the files.
Init == InitStore /\ TextIdle /\ ScrapeIdle /\ CallIdle /\ RunIdle
Spec == Init /\ [][NextStore]_vars

\* One run of main from an empty data directory (the sinks of a run read
\* nothing an earlier run's DataStorage left), over the storage configurations
\* and over what the enabled sinks of DataStorage meet.
InitSpecSave ==
    /\ latest = NoFile
    /\ snapshots = [t \in Timestamps |-> NoFile]
    /\ runs = MaxRuns - 1
    /\ mpc = "start"
    /\ all_products = <<>>
    /\ timestamp_file = "none"
    /\ prior_latest = NoFile
    /\ write_outcome = "none"
    /\ ret = NoRet
    /\ sinks = <<>>
    /\ storage_config \in StorageConfigs
    /\ storage_io \in StorageIOs
    /\ storage_config.csv_enabled \/ storage_io.csv
    /\ storage_config.google_sheets_enabled \/ storage_io.google_sheets
    /\ TextIdle /\ ScrapeIdle /\ CallIdle /\ RunIdle
SpecSave == InitSpecSave /\ [][NextStore]_vars

\* extract_price_from_text over the price-bearing texts.
InitSpecPriceText == InitPriceText /\ StoreIdle /\ ScrapeIdle /\ CallIdle /\ RunIdle
SpecPriceText == InitSpecPriceText /\ [][NextPriceText]_vars

\* The scrapers over the pages and cards.
InitSpecScrape == ScrapeIdle /\ StoreIdle /\ TextIdle /\ CallIdle /\ RunIdle
SpecScrape == InitSpecScrape /\ [][NextScrape]_vars

\* The extractors on their own.
InitSpecCall == CallIdle /\ StoreIdle /\ TextIdle /\ ScrapeIdle /\ RunIdle
SpecCall == InitSpecCall /\ [][NextCall]_vars

\* The scraping part of a run.
InitSpecRun == RunStart /\ StoreIdle /\ TextIdle /\ ScrapeIdle /\ CallIdle
SpecRun == InitSpecRun /\ [][NextRun]_vars

\* The same with the scheduling of main's Wildberries loop: it runs in one
\* thread and every wait of a turn has a timeout (set_page_load_timeout,
\* WebDriverWait), so a turn that can be taken is taken, and so is the step
\* after the last turn.
FairSpecRun == SpecRun /\ WF_vars(MainWbCollect) /\ WF_vars(MainWbExtend)

----------------------------------------------------------------------------
(* Properties of the stores *)

FileRecords(f) == JsonLoad(f.text)

SameKey(a, b) == str(a.article) = str(b.article) /\ a.marketplace = b.marketplace

\* The items of s whose key no earlier item of s has, in the order of s.
FirstOccurrences(s) ==
    LET keep == {i \in 1..Len(s) : \A j \in 1..(i - 1) : ~SameKey(s[j], s[i])}
        nth(k) == CHOOSE i \in keep : Cardinality({j \in keep : j <= i}) = k
    IN [k \in 1..Cardinality(keep) |-> s[nth(k)]]

NoRepeatedKey(s) == \A i, j \in 1..Len(s) : SameKey(s[i], s[j]) => i = j

LatestSaved == mpc = "done" /\ ret.latest = "True"

\* C1: when save_to_json writes the latest file over readable prior contents P
\* with the run's records R, the written list is P followed by R without the
\* records whose (str(article), marketplace) key occurred earlier: P's record
\* wins over R's, a key only in R is included, the order is kept.
C1_LatestIsFirstOccurrencesOfPriorThenRun ==
    (LatestSaved /\ prior_latest.st = "list")
        => /\ latest.st = "list"
           /\ FileRecords(latest)
                = FirstOccurrences(FileRecords(prior_latest) \o all_products)

C1_Witness ==
    /\ LatestSaved
    /\ prior_latest.st = "list"
    /\ LET P == FileRecords(prior_latest)
       IN /\ \E i \in 1..Len(P), j \in 1..Len(all_products) :
                SameKey(P[i], all_products[j]) /\ P[i] # all_products[j]
          /\ \E j \in 1..Len(all_products) :
                \A i \in 1..Len(P) : ~SameKey(P[i], all_products[j])

\* C2: after a run that re-collects a key already in the latest file, the
\* latest file holds the newly collected record of that key (last-write-wins).
C2_LatestHoldsNewlyCollectedRecord ==
    (LatestSaved /\ prior_latest.st = "list")
        => LET P == FileRecords(prior_latest)
               L == FileRecords(latest)
           IN \A j \in 1..Len(all_products) :
                ( /\ \E i \in 1..Len(P) : SameKey(P[i], all_products[j])
                  /\ \A k \in (j + 1)..Len(all_products) :
                        ~SameKey(all_products[k], all_products[j]) )
                    => \E n \in 1..Len(L) : L[n] = all_products[j]

\* C3: every file save_to_json has written holds each (article, marketplace)
\* pair at most once, articles being the same when their string forms are.
C3_WrittenFilesHaveNoRepeatedKey ==
    /\ ret.latest = "True" => NoRepeatedKey(FileRecords(latest))
    /\ \A t \in Timestamps :
          snapshots[t].st = "list" => NoRepeatedKey(FileRecords(snapshots[t]))

C3_Witness ==
    /\ LatestSaved
    /\ ret.snapshot = "True"
    /\ prior_latest.st = "list"
    /\ ~NoRepeatedKey(FileRecords(prior_latest))
    /\ \E i, j \in 1..Len(all_products) :
          /\ i # j
          /\ all_products[i].article # all_products[j].article
          /\ SameKey(all_products[i], all_products[j])

\* C4: whenever the existing latest file is damaged or unreadable, save_to_json
\* takes the prior contents as empty, writes the run's deduplicated records and
\* returns True.
C4_DamagedLatestIsTakenAsEmpty ==
    (mpc = "done" /\ all_products # <<>> /\ prior_latest.st \in DamageKinds
                  /\ write_outcome = "ok")
        => /\ ret.latest = "True"
           /\ latest.st = "list"
           /\ FileRecords(latest) = FirstOccurrences(all_products)

\* C5: a snapshot file, once written, is never changed by a later save: every
\* run writes a snapshot file of its own.
C5_SnapshotsAreNeverRewritten ==
    [][\A t \in Timestamps :
          snapshots[t].st # "absent" => snapshots'[t] = snapshots[t]]_vars

PairwiseDistinct(s) == \A i, j \in 1..Len(s) : s[i] = s[j] => i = j

SnapshotSaved == mpc \in {"latest", "done"} /\ ret.snapshot = "True"

\* C6 as stated: a list of N distinct records written to a snapshot file reads
\* back as the same N records in the same order.
C6_RoundTripOfDistinctRecords ==
    (SnapshotSaved /\ PairwiseDistinct(all_products))
        => FileRecords(snapshots[timestamp_file]) = all_products

\* C6 as amended: a list of N records with pairwise distinct
\* (str(article), marketplace) keys written to a snapshot file reads back as
\* the same N records, equal in every field and in the same order.
C6_RoundTripOfDistinctKeys ==
    (SnapshotSaved /\ NoRepeatedKey(all_products))
        => FileRecords(snapshots[timestamp_file]) = all_products

C6_Witness ==
    /\ SnapshotSaved
    /\ NoRepeatedKey(all_products)
    /\ Len(all_products) = 2
    /\ \E i \in 1..2 : all_products[i].article.t = "int"
    /\ \E i \in 1..2 : all_products[i].old_price = PyNone

----------------------------------------------------------------------------
(* Properties of the price normaliser *)

RECURSIVE GroupDigits(_)
GroupDigits(gs) ==
    IF gs = <<>> THEN <<>> ELSE Head(gs).digits \o GroupDigits(Tail(gs))

\* The value of a price-bearing text: its digit groups joined, the comma read
\* as the decimal point.
TextIntDigits(parts) == parts.lead \o GroupDigits(parts.groups)
TextValue(parts) ==
    Number(DigitsValue(TextIntDigits(parts)), DropTrailingZeros(parts.frac))
TextValueInBand(parts) ==
    /\ Len(TextIntDigits(parts)) <= 7
    /\ 10 <= DigitsValue(TextIntDigits(parts))
    /\ \/ DigitsValue(TextIntDigits(parts)) < 1000000
       \/ DigitsValue(TextIntDigits(parts)) = 1000000 /\ DropTrailingZeros(parts.frac) = <<>>

\* C9: for every price-bearing text with thousands separators and/or a
\* decimal comma, extract_price_from_text returns the text's value when it
\* lies in the band 10 to 1000000, and None when it lies outside.
C9_PriceTextValue ==
    ppc = "returned"
        => price_result = IF TextValueInBand(price_parts)
                            THEN TextValue(price_parts) ELSE None

----------------------------------------------------------------------------
(* Properties of the product assemblers *)

Missing(t) == t = <<>>

\* C7: no record whose name, price or article is missing (absent or empty) is
\* returned by collect_product_data or by extract_product_info_immediately.
C7_NoRecordWithoutNamePriceArticle ==
    /\ (wpc = "returned" /\ result.some)
          => ~Missing(result.name) /\ result.price.some /\ ~Missing(result.article)
    /\ (opc = "returned" /\ product_info.some)
          => /\ ~Missing(product_info.name)
             /\ product_info.price.some
             /\ ~Missing(product_info.article)

\* lo <= p <= hi for a price p.
PriceWithin(p, lo, hi) ==
    /\ p.some
    /\ lo <= p.units
    /\ p.units < hi \/ (p.units = hi /\ p.frac = <<>>)

\* C8: the price of every assembled record lies in the band of its
\* marketplace (Wildberries 10 to 1000000, Ozon 1000 to 100000), whichever
\* search produced it; a value outside the band is never taken as the price.
C8_RecordPriceInBand ==
    /\ price.some => PriceWithin(price, 10, 1000000)
    /\ result.some => PriceWithin(result.price, 10, 1000000)
    /\ product_info.some => PriceWithin(product_info.price, 1000, 100000)

C8_Witness ==
    /\ wpc = "returned"
    /\ result.some
    /\ price_source = "scripts"
    /\ result.price = Number(1490, <<>>)

PhraseIn(t) == \E k \in 1..Len(block_indicators) : Contains(t, block_indicators[k])

\* The title or the body text of the page holds a denylisted phrase, in
\* whatever case.
PageHoldsBlockPhrase(pg) == PhraseIn(Lower(pg.title)) \/ PhraseIn(Lower(pg.body))

BlockedOutcome ==
    /\ blocked = "True"
    /\ ~result.some
    /\ invoked = {}
    /\ exc = "none"
    /\ session = "quit"

\* C10 as stated: when the title or the body text of the loaded page holds a
\* denylisted phrase, is_blocked returns true and collect_product_data ends
\* with no record, no field extractor invoked, no exception left to the caller
\* and the browser session released.
C10_BlockedPageEndsTheTarget ==
    (wpc = "returned" /\ PageHoldsBlockPhrase(page)) => BlockedOutcome

\* C10 as amended: the same, when the title and the body text are both read
\* without an error.
C10_ReadableBlockedPageEndsTheTarget ==
    (wpc = "returned" /\ page.title_ok /\ page.body_ok /\ PageHoldsBlockPhrase(page))
        => BlockedOutcome

C10_Witness ==
    /\ wpc = "returned"
    /\ page.title_ok
    /\ page.body_ok
    /\ ~PhraseIn(Lower(page.title))
    /\ PhraseIn(Lower(page.body))
    /\ ~PhraseIn(page.body)
    /\ BlockedOutcome

----------------------------------------------------------------------------
(* Properties of the scraping part of a run *)

\* The positions inside the try statement of search_target_products, where
\* the Ozon browser is in use.
InsideOzonScrape == {"ozon_get", "ozon_find", "ozon_except", "ozon_finally"}

\* C11: every browser session that was started has had driver.quit() called
\* on it by the time the scrape operation that started it has returned or
\* raised, a failure inside setup_driver after the browser started included:
\* outside the Ozon scrape no browser of the run is left open, and
\* collect_product_data does not return with its browser open.
C11_StartedSessionsAreReleased ==
    /\ rpc \notin InsideOzonScrape => open_browsers = 0
    /\ wpc = "returned" => session # "open"

\* The Ozon scrape of main is over.
AfterOzonScrape == entry = "main" /\ rpc \in {"wb_start", "wb_loop", "save"}

Holds(list, r) == \E k \in 1..Len(list) : list[k] = r

\* C12: when driver.quit() of the Ozon scrape raises, the records the scrape
\* had collected are still added to main's all_products.
C12_ReleaseFailureKeepsCollectedRecords ==
    AfterOzonScrape /\ quit_raised =>
        \A k \in 1..Len(found_products) : Holds(all_products, found_products[k])

\* C13: between two consecutive calls of collect_product_data in a run there
\* is a delay step, in main's Wildberries loop and in
\* collect_multiple_products alike.
C13_DelayBetweenConsecutiveCalls ==
    \A k \in 1..(Len(trace) - 1) : trace[k] = "call" => trace[k + 1] # "call"

\* C14: the collection main hands to the save block holds no two records with
\* the same marketplace and article.
C14_HandedCollectionHasNoRepeatedKey ==
    rpc = "save" =>
        \A j, k \in 1..Len(all_products) :
            j < k => \/ all_products[j].marketplace # all_products[k].marketplace
                     \/ all_products[j].article # all_products[k].article

\* C19: no field extractor runs on a page before the block check has judged
\* that page unblocked: in collect_product_data is_blocked has returned False
\* before any extractor is invoked, and in the Ozon scrape a judgement of the
\* search page comes before the extraction of its cards.
C19_ExtractionFollowsBlockCheck ==
    /\ invoked # {} => blocked = "False"
    /\ \A k \in 1..Len(trace) :
          trace[k] = "ozon_extract" => \E j \in 1..(k - 1) : trace[j] = "ozon_unblocked"

----------------------------------------------------------------------------
(* Properties of the extractors *)

\* A text that opens with an integer written in groups of thousands, one
\* space between the groups: one to three digits, then groups of a space and
\* three digits. SpacedGroupsEnd is the place after the last such group.
RECURSIVE SpacedGroupsEnd(_, _)
SpacedGroupsEnd(t, i) ==
    IF /\ i + 3 <= Len(t)
       /\ t[i] = " "
       /\ IsDigit(t[i + 1]) /\ IsDigit(t[i + 2]) /\ IsDigit(t[i + 3])
       /\ ~(i + 4 <= Len(t) /\ IsDigit(t[i + 4]))
      THEN SpacedGroupsEnd(t, i + 4)
      ELSE i
OpensWithSpacedInteger(t) ==
    LET a == DigitRunEnd(t, 1) - 1
    IN a \in 1..3 /\ SpacedGroupsEnd(t, a + 1) > a + 1
SpacedInteger(t) ==
    LET a == DigitRunEnd(t, 1) - 1
    IN DigitsValue(SelectSeq(SubSeq(t, 1, SpacedGroupsEnd(t, a + 1) - 1), IsDigit))

\* C15: when the first review text that holds a digit opens with an integer
\* written in space-separated groups of thousands, the reviews-count
\* extractor of either scraper returns that whole integer or 0, never a
\* leading group of it.
C15_SpacedReviewCountIsWholeOrZero ==
    fn \in {"extract_reviews_count", "ozon_extract_reviews_count"} =>
        \A k \in 1..Len(args) :
            (/\ \A j \in 1..(k - 1) : ~HasDigits(args[j])
             /\ OpensWithSpacedInteger(Strip(args[k])))
            => value \in {SpacedInteger(Strip(args[k])), 0}

\* An Optional[float] that is absent or lies in 0..5.
RatingWithin(r) == r.some => r.units < 5 \/ (r.units = 5 /\ r.frac = <<>>)

\* C16: the rating of every assembled record, of collect_product_data and of
\* extract_product_info_immediately, is absent or a number from 0 to 5.
C16_RecordRatingInRange ==
    /\ result.some => RatingWithin(result.rating)
    /\ product_info.some => RatingWithin(product_info.rating)

\* The fields whose name tells that the value is in minor units.
MinorUnitFields == {"salePriceU", "priceU"}

\* What the captured value of a field stands for: a hundredth of it for a
\* minor-unit field, the value itself for any other field.
FieldPrice(f) ==
    LET parts == IF f.key \in MinorUnitFields THEN DivideBy100(FloatIntDigits(f.value))
                 ELSE [ip |-> FloatIntDigits(f.value), fp |-> FloatFracDigits(f.value)]
    IN Number(DigitsValue(DropLeadingZeros(parts.ip)), DropTrailingZeros(parts.fp))

\* C17: a price that extract_price_from_scripts returns is the value of a
\* price field of a script that mentions the article, divided by 100 when the
\* field is salePriceU or priceU and undivided for any other field.
C17_ScriptPriceByFieldUnit ==
    fn = "extract_price_from_scripts" /\ value.some =>
        \E k \in 1..Len(args) :
            /\ args[k].mentions_article
            /\ \E j \in 1..Len(args[k].fields) : value = FieldPrice(args[k].fields[j])

\* C18: the name extract_product_name returns is longer than 3 characters
\* when a name selector gave it and longer than 10 when the page title gave
\* it, the length being taken after clean_product_name.
C18_ReturnedNameIsValidAfterCleaning ==
    fn = "extract_product_name" /\ value.some =>
        Len(value.text) > (IF NameFromSelectors(args.texts).some THEN 3 ELSE 10)

\* C20: extract_availability reports out of stock when a displayed
\* out-of-stock indicator is found, whatever the order buttons are; else in
\* stock when a displayed and enabled order button is found; else unknown
\* when the price is zero and in stock otherwise.
C20_AvailabilityTieBreak ==
    fn = "extract_availability" =>
        value = IF \E k \in 1..Len(args.out_of_stock) : args.out_of_stock[k] = "displayed"
                  THEN "Net v nalichii"
                ELSE IF \E k \in 1..Len(args.in_stock) : args.in_stock[k] = "usable"
                  THEN "V nalichii"
                ELSE IF args.price = Number(0, <<>>) THEN "Neizvestno"
                ELSE "V nalichii"

\* An out-of-stock indicator and a usable order button are both on the page.
C20_Witness ==
    /\ fn = "extract_availability"
    /\ \E k \in 1..Len(args.out_of_stock) : args.out_of_stock[k] = "displayed"
    /\ \E k \in 1..Len(args.in_stock) : args.in_stock[k] = "usable"
    /\ value = "Net v nalichii"

----------------------------------------------------------------------------
(* Properties of main's Wildberries loop *)

ArticlesOf(list) == [k \in 1..Len(list) |-> list[k].article]

RECURSIVE IsSubsequence(_, _)
IsSubsequence(s, t) ==
    IF s = <<>> THEN TRUE
    ELSE IF t = <<>> THEN FALSE
    ELSE IF Head(s) = Head(t) THEN IsSubsequence(Tail(s), Tail(t))
    ELSE IsSubsequence(s, Tail(t))

\* C21: in main's Wildberries loop the identifiers attempted so far are the
\* configured list up to the place of the loop, each once and in list order;
\* the records collected are of attempted identifiers, in that order, a
\* target that gave None adding nothing; and the loop, once begun, reaches
\* the end of the list, where every identifier has been attempted.
C21_EveryIdentifierAttemptedOnceInOrder ==
    /\ [](entry = "main" =>
            /\ Len(attempted) <= Len(wb_articles)
            /\ attempted = SubSeq(wb_articles, 1, Len(attempted))
            /\ IsSubsequence(ArticlesOf(wb_products), attempted))
    /\ [](entry = "main" /\ rpc = "save" => attempted = wb_articles)
    /\ (entry = "main" /\ rpc = "wb_loop") ~> (rpc = "save")

\* The first of two targets failed and the second gave a record.
C21_Witness ==
    /\ entry = "main"
    /\ rpc = "save"
    /\ Len(wb_articles) = 2
    /\ attempted = wb_articles
    /\ Len(wb_products) = 1
    /\ wb_products[1].article = wb_articles[2]
    /\ wb_articles[1] # wb_articles[2]

----------------------------------------------------------------------------
(* Properties of the save block *)

\* The sinks a run with this configuration has: the two JSON files, then the
\* CSV file and the spreadsheet when enabled.
EnabledSinks(config) ==
    <<"snapshot", "latest">>
    \o (IF config.csv_enabled THEN <<"csv">> ELSE <<>>)
    \o (IF config.google_sheets_enabled THEN <<"google_sheets">> ELSE <<>>)

\* C22: a run that collected records reaches the end of main with every
\* enabled sink called once, in order, whichever of them failed, and each
\* sink was handed the whole collection, which is as it was collected.
C22_SinkFailureStopsNothing ==
    mpc = "done" /\ all_products # <<>> =>
        /\ [k \in 1..Len(sinks) |-> sinks[k].sink] = EnabledSinks(storage_config)
        /\ \A k \in 1..Len(sinks) : sinks[k].products = all_products

\* The two JSON saves and the CSV save failed; the spreadsheet was still
\* written with the whole collection.
C22_Witness ==
    /\ mpc = "done"
    /\ Len(all_products) = 2
    /\ Len(sinks) = 4
    /\ ~sinks[1].saved
    /\ ~sinks[2].saved
    /\ ~sinks[3].saved
    /\ sinks[4].saved
    /\ sinks[4].products = all_products

----------------------------------------------------------------------------
(* Properties of the block check and of the records *)

\* C23: when the read of the title or of the body text fails, is_blocked
\* returns False and raises nothing, and collect_product_data goes on to the
\* extraction of the name.
C23_BlockCheckFailsOpen ==
    [][(wpc = "check" /\ (~page.title_ok \/ ~page.body_ok)) =>
          (blocked' = "False" /\ exc' = "none" /\ wpc' = "name")]_vars

\* The body text could not be read, the title holds a denylisted phrase, and
\* the name extractor has run.
C23_Witness ==
    /\ blocked = "False"
    /\ ~page.body_ok
    /\ PhraseIn(Lower(page.title))
    /\ "extract_product_name" \in invoked

\* C24: in every assembled record the old price is absent or lies in the band
\* of the marketplace's price (Wildberries 10 to 1000000, Ozon 1000 to
\* 100000).
C24_RecordOldPriceInBand ==
    /\ result.some =>
          (~result.old_price.some \/ PriceWithin(result.old_price, WbPriceMin, WbPriceMax))
    /\ product_info.some =>
          (~product_info.old_price.some
             \/ PriceWithin(product_info.old_price, OzonPriceMin, OzonPriceMax))

----------------------------------------------------------------------------
(* Properties of the Ozon search *)

\* What the cards give, in selector order then element order: the records of
\* the cards extract_product_info_immediately gets a record from.
IsDetection(info) == info.some
Detections(elements) ==
    SelectSeq([k \in 1..Len(elements) |-> extract_product_info_immediately(elements[k])],
              IsDetection)

\* The places of s that hold the first record of an article.
FirstOfArticle(s) == {i \in 1..Len(s) : \A j \in 1..(i - 1) : s[j].article # s[i].article}

\* The records at those places, in order.
FirstDetections(s) ==
    [n \in 1..Cardinality(FirstOfArticle(s)) |->
        s[CHOOSE i \in FirstOfArticle(s) :
             Cardinality({j \in FirstOfArticle(s) : j < i}) = n - 1]]

\* C25: the list find_all_products_safe returns holds each article at most
\* once, and the record kept for an article is its first detection.
C25_FirstDetectionOfEachArticleIsKept ==
    entry = "main" /\ rpc \notin {"start", "ozon_setup", "ozon_get", "ozon_find"} =>
        /\ \A i, j \in 1..Len(all_products_data) :
              all_products_data[i].article = all_products_data[j].article => i = j
        /\ all_products_data = FirstDetections(Detections(cards))

\* Two cards of one article with different prices: the first is kept.
C25_Witness ==
    /\ entry = "main"
    /\ rpc = "ozon_finally"
    /\ Len(Detections(cards)) = 2
    /\ Detections(cards)[1].article = Detections(cards)[2].article
    /\ Detections(cards)[1].price # Detections(cards)[2].price
    /\ all_products_data = <<Detections(cards)[1]>>

----------------------------------------------------------------------------
(* Properties of the latest file over successive runs *)

\* The record list s stores for the key of r: the first of that key.
StoredFor(s, r) ==
    s[CHOOSE i \in 1..Len(s) : SameKey(s[i], r) /\ \A j \in 1..(i - 1) : ~SameKey(s[j], r)]

\* C26: a save of the latest file that succeeds over a readable list keeps
\* every key the list held, with the record the list stored for it; so over
\* successive runs the store only grows and the first record of a key stays.
C26_LatestOnlyGrows ==
    [][(mpc = "latest" /\ latest.st = "list" /\ ret'.latest = "True") =>
          /\ latest'.st = "list"
          /\ Len(FileRecords(latest')) >= Len(FirstOccurrences(FileRecords(latest)))
          /\ \A i \in 1..Len(FileRecords(latest)) :
                \E k \in 1..Len(FileRecords(latest')) :
                    FileRecords(latest')[k]
                        = StoredFor(FileRecords(latest), FileRecords(latest)[i])]_vars

\* A second run collected a key the first run had stored, with another price,
\* and a new key: the stored record stayed and the file grew.
C26_Witness ==
    /\ runs = 2
    /\ LatestSaved
    /\ prior_latest.st = "list"
    /\ LET P == FileRecords(prior_latest)
           L == FileRecords(latest)
       IN /\ Len(P) = 1
          /\ Len(L) = 2
          /\ L[1] = P[1]
          /\ \E j \in 1..Len(all_products) :
                SameKey(P[1], all_products[j]) /\ P[1] # all_products[j]

\* C27: a save of the latest file that returned False has left the file as it
\* was before the call.
C27_FailedLatestSaveLeavesFileIntact ==
    (mpc = "done" /\ ret.latest = "False") => latest = prior_latest

\* C28: when the latest file is what a successful save of the run's records
\* leaves (no key twice, every key of the run in it), a successful save of
\* these records leaves the file's list of records as it was.
C28_SecondSaveChangesNothing ==
    (/\ LatestSaved
     /\ prior_latest.st = "list"
     /\ FileRecords(prior_latest)
           = FirstOccurrences(FileRecords(prior_latest) \o all_products))
        => FileRecords(latest) = FileRecords(prior_latest)

\* The second of two runs saved the records the first run had saved into an
\* empty store, a record with a repeated key among them.
C28_Witness ==
    /\ runs = 2
    /\ LatestSaved
    /\ prior_latest.st = "list"
    /\ Len(all_products) = 2
    /\ SameKey(all_products[1], all_products[2])
    /\ all_products[1] # all_products[2]
    /\ FileRecords(prior_latest) = FirstOccurrences(all_products)
    /\ FileRecords(latest) = FileRecords(prior_latest)

----------------------------------------------------------------------------
(* Properties of the availability of the Wildberries records *)

\* C29: the price collect_product_data hands to extract_availability is at
\* least 10, and the availability of every record it returns is "Net v
\* nalichii" (out of stock) or "V nalichii" (in stock), never "Neizvestno".
C29_RecordAvailabilityIsKnown ==
    /\ "extract_availability" \in invoked => (price.some /\ price.units >= WbPriceMin)
    /\ availability # "Neizvestno"
    /\ result.some => result.availability \in {"Net v nalichii", "V nalichii"}

\* A record of the lowest price among the pages, 12.5, found in stock.
C29_Witness ==
    /\ wpc = "returned"
    /\ result.some
    /\ "extract_availability" \in invoked
    /\ result.price = Number(12, <<"5">>)
    /\ result.availability = "V nalichii"

====
